---- MODULE Spec2Model ----
(***************************************************************************)
(* Attendance page of mindsfire-employees: the status classifier           *)
(* (getStatus), the load step of the page (loadRecords: auto-close,        *)
(* active-session determination, retention), the compliance check         *)
(* (checkAttendanceCompliance), the clock-in / clock-out handlers working  *)
(* against the attendance_logs table, the durations and summary cards of   *)
(* the page and the alerts of the admin audit page.                        *)
(*                                                                         *)
(* A JavaScript Date is modelled as a record [day, ms]: the local calendar *)
(* day number and the local milliseconds since midnight, in a zone with a  *)
(* fixed UTC offset (no daylight-saving jump).  With this reading          *)
(* getHours/getMinutes/setHours/setDate are the local-time accessors of    *)
(* Date and getTime() order is the lexicographic order on (day, ms).  An   *)
(* ISO string written by toISOString() and parsed back by new Date(string) *)
(* denotes the same instant with the same millisecond, so a stored         *)
(* timestamptz column holds the same [day, ms] value.                      *)
(***************************************************************************)
EXTENDS Integers, Sequences, FiniteSets, TLC

VARIABLES
    now,               \* the wall clock read by new Date()
    db,                \* rows of attendance.attendance_logs
    records,           \* useState<AttendanceRecord[]>
    currentSessionId,  \* useState<string | null>
    error,             \* useState<string | null>
    isLoading,         \* useState(true)
    handlers,          \* clock-in / clock-out handler invocations in flight
    nextId,            \* the next primary key gen_random_uuid() hands out
    complianceWarnings, \* useState<ComplianceWarning[]>
    session,           \* classifier input: [loginTime, logoutTime]
    status,            \* classifier output, or what the views render of the records
    phase,             \* position of the driver of the current specification
    loads,             \* runs of loadRecords in flight
    rendered           \* the last rendering of Home: useState<RangeFilter> and its instant

vars == <<now, db, records, currentSessionId, error, isLoading, handlers, nextId,
          complianceWarnings, session, status, phase, loads, rendered>>

-----------------------------------------------------------------------------
(* Program constants *)

OFFICE_START_HOUR == 10
OFFICE_END_HOUR == 19
GRACE_PERIOD_MINUTES == 0
RETENTION_DAYS == 90

-----------------------------------------------------------------------------
(* Dates *)

MsPerSecond == 10 * 10 * 10
MsPerMinute == 60 * MsPerSecond
MsPerHour == 60 * MsPerMinute
MsPerDay == 24 * MsPerHour

\* null (logoutTime: Date | null, or a missing loginTime)
NULL == [null |-> TRUE]

\* new Date(NaN): a Date object whose getTime() is NaN
InvalidDate == [nan |-> TRUE]

\* a Date holding a valid instant
Date(d, m) == [day |-> d, ms |-> m]

\* the local time of day h:mi:s.milli as milliseconds since midnight
TimeOfDay(h, mi, s, milli) == h * MsPerHour + mi * MsPerMinute + s * MsPerSecond + milli

\* !loginTime || !(loginTime instanceof Date) || isNaN(loginTime.getTime()), negated
IsValidDate(t) == t # NULL /\ t # InvalidDate

getHours(t) == t.ms \div MsPerHour

getMinutes(t) == (t.ms \div MsPerMinute) % 60

\* a.getTime() < b.getTime()
Before(a, b) == a.day < b.day \/ (a.day = b.day /\ a.ms < b.ms)

startOfDay(date) == Date(date.day, TimeOfDay(0, 0, 0, 0))

\* endOfDay setting the hours to 0:00:00.000 (the body of startOfDay)
endOfDay_Midnight(date) == Date(date.day, TimeOfDay(0, 0, 0, 0))

endOfDay(date) == Date(date.day, TimeOfDay(23, 59, 59, 999))

daysAgo(days, fromDate) == Date(fromDate.day - days, fromDate.ms)

\* day numbers count from 1 January of a common year: the first day of each month
FirstOfMonth == {0, 31, 59, 90, 120, 151, 181, 212, 243, 273, 304, 334}

\* the first day of the month of day d
FirstDayOfMonth(d) ==
    CHOOSE f \in FirstOfMonth : f <= d /\ \A g \in FirstOfMonth : g <= d => g <= f

startOfMonth(date) == Date(FirstDayOfMonth(date.day), TimeOfDay(0, 0, 0, 0))

-----------------------------------------------------------------------------
(* Status classifier *)

\* EntryStatus with the grace comparison written < instead of <=
EntryStatus_StrictGrace(loginTime) ==
    LET loginHour == getHours(loginTime)
        loginMinute == getMinutes(loginTime)
    IN  IF loginHour < 9 \/ (loginHour = 9 /\ loginMinute < 30)
        THEN <<"Early Entry">>
        ELSE IF loginHour = 9 /\ loginMinute >= 30
        THEN <<"Good Entry">>
        ELSE IF loginHour = OFFICE_START_HOUR /\ loginMinute < GRACE_PERIOD_MINUTES
        THEN <<"Good Entry">>
        ELSE <<"Late">>

\* EntryStatus granting the grace minutes in every hour from the start hour on
\* (>= for === in the hour comparison)
EntryStatus_GraceEveryHour(loginTime) ==
    LET loginHour == getHours(loginTime)
        loginMinute == getMinutes(loginTime)
    IN  IF loginHour < 9 \/ (loginHour = 9 /\ loginMinute < 30)
        THEN <<"Early Entry">>
        ELSE IF loginHour = 9 /\ loginMinute >= 30
        THEN <<"Good Entry">>
        ELSE IF loginHour >= OFFICE_START_HOUR /\ loginMinute <= GRACE_PERIOD_MINUTES
        THEN <<"Good Entry">>
        ELSE <<"Late">>

\* the entry logic of getStatus
EntryStatus(loginTime) ==
    LET loginHour == getHours(loginTime)
        loginMinute == getMinutes(loginTime)
    IN  IF loginHour < 9 \/ (loginHour = 9 /\ loginMinute < 30)
        THEN <<"Early Entry">>
        ELSE IF loginHour = 9 /\ loginMinute >= 30
        THEN <<"Good Entry">>
        ELSE IF loginHour = OFFICE_START_HOUR /\ loginMinute <= GRACE_PERIOD_MINUTES
        THEN <<"Good Entry">>
        ELSE <<"Late">>

\* ExitStatus with the half-hour comparison written < instead of <=
ExitStatus_StrictHalfHour(logoutTime) ==
    IF logoutTime # NULL
    THEN LET logoutHour == getHours(logoutTime)
             logoutMinute == getMinutes(logoutTime)
         IN  IF logoutHour < OFFICE_END_HOUR
             THEN <<"Early Leave">>
             ELSE IF logoutHour = OFFICE_END_HOUR /\ logoutMinute < 30
             THEN <<"Good Exit">>
             ELSE <<"Overtime">>
    ELSE <<>>

\* the exit logic of getStatus
ExitStatus(logoutTime) ==
    IF logoutTime # NULL
    THEN LET logoutHour == getHours(logoutTime)
             logoutMinute == getMinutes(logoutTime)
         IN  IF logoutHour < OFFICE_END_HOUR
             THEN <<"Early Leave">>
             ELSE IF logoutHour = OFFICE_END_HOUR /\ logoutMinute <= 30
             THEN <<"Good Exit">>
             ELSE <<"Overtime">>
    ELSE <<>>

\* getStatus returning an empty list for a loginTime that is no valid instant
getStatus_EmptyOnInvalid(loginTime, logoutTime) ==
    IF ~IsValidDate(loginTime)
    THEN <<>>
    ELSE EntryStatus(loginTime) \o ExitStatus(logoutTime)

getStatus(loginTime, logoutTime) ==
    IF ~IsValidDate(loginTime)
    THEN <<"Invalid Time">>
    ELSE LET tags == EntryStatus(loginTime) \o ExitStatus(logoutTime)
         IN  IF Len(tags) = 0 /\ logoutTime # NULL
             THEN <<"On Time">>
             ELSE IF Len(tags) = 0
             THEN <<"In Progress">>
             ELSE tags

-----------------------------------------------------------------------------
(* State shared by the specifications *)

\* useState<string | null>(null) for currentSessionId: no session
NoSessionId == 0

\* useState<string | null>(null) for error: no message
NoError == "null"

\* the signed-in employee (user.email) and a colleague whose rows share the table
UserEmail == "u1"

OtherEmail == "u2"

\* the largest number of handler invocations in flight at once
MaxHandlers == 2

\* a handler invocation that has returned (or was never started)
Idle == [pc |-> "idle", id |-> NoSessionId, at |-> NULL]

\* the largest number of runs of loadRecords in flight at once
MaxLoads == 1

\* the operations (handler invocations and runs of loadRecords) in flight together
MaxInFlight == 2

\* the rows the store ever creates: the ids it gives are 1 .. MaxIds
MaxIds == 4

\* no run of loadRecords in this slot
LoadIdle == [pc |-> "idle", data |-> <<>>]

\* the runs of loadRecords right after the mount: the effect has run loadRecords
\* up to its first await, the query for the rows of the user is on its way
MountLoads == [l \in 1 .. MaxLoads |-> IF l = 1 THEN [pc |-> "query", data |-> <<>>]
                                                ELSE LoadIdle]

\* loadRecords is not running
NoLoads == [l \in 1 .. MaxLoads |-> LoadIdle]

\* the first rendering of Home: useState<RangeFilter>('last7'), at the instant
\* of the mount. The functions the buttons of the page call are those of the
\* last rendering, and hold what it computed (filteredRecords)
FirstRendering == [rangeFilter |-> "last7", at |-> now]

\* Home renders again, at the instant of the call, when a setter is given a new
\* array (always one that is not the state's), or a string or boolean other than
\* the state's (Object.is); a setter given the state's own value renders nothing
Rerender(newArray) ==
    rendered' = IF \/ newArray
                   \/ <<currentSessionId', error', isLoading'>>
                          # <<currentSessionId, error, isLoading>>
                THEN [rendered EXCEPT !.at = now]
                ELSE rendered

\* the state of the page right after construction (useState initial values, and
\* the effects of the first rendering)
PageMounted ==
    /\ rendered = FirstRendering
    /\ records = <<>>
    /\ currentSessionId = NoSessionId
    /\ error = NoError
    /\ isLoading = TRUE
    /\ complianceWarnings = <<>>
    /\ handlers = [h \in 1 .. MaxHandlers |-> Idle]
    /\ loads = MountLoads

\* the classifier is not in use
NoClassifier ==
    /\ session = [loginTime |-> NULL, logoutTime |-> NULL]
    /\ status = <<>>

-----------------------------------------------------------------------------
(* Compliance check: checkAttendanceCompliance and the effect that runs it *)
(*                                                                         *)
(* A message is a template literal around issues.join(', '); it is         *)
(* modelled by its parts: the userName and the list of issues, each issue  *)
(* the number it embeds and the text around the number.                    *)

\* the display name of the signed-in employee (non-blank)
UserName == "name"

\* statuses.includes(tag)
Includes(statuses, tag) == \E i \in DOMAIN statuses : statuses[i] = tag

\* userRecords.filter: no logoutTime and startOfDay(loginTime) < today
UnclosedOldSessions(userRecords, today) ==
    SelectSeq(userRecords, LAMBDA record :
        record.logoutTime = NULL /\ Before(startOfDay(record.loginTime), today))

\* RecentRecords leaving out the record that logged in exactly at sevenDaysAgo (> for >=)
RecentRecords_Strict(userRecords, sevenDaysAgo) ==
    SelectSeq(userRecords, LAMBDA record :
        IsValidDate(record.loginTime) /\ Before(sevenDaysAgo, record.loginTime))

\* userRecords.filter(record => record.loginTime >= sevenDaysAgo)
RecentRecords(userRecords, sevenDaysAgo) ==
    SelectSeq(userRecords, LAMBDA record :
        IsValidDate(record.loginTime) /\ ~Before(record.loginTime, sevenDaysAgo))

\* recentRecords.filter(record => getStatus(...).includes(tag)).length
CountWithTag(recentRecords, tag) ==
    Len(SelectSeq(recentRecords, LAMBDA record :
            Includes(getStatus(record.loginTime, record.logoutTime), tag)))

\* `${unclosedOldSessions.length} unclosed session(s)`, pushed when there is one
UnclosedIssue(unclosedCount) ==
    IF unclosedCount > 0
    THEN <<[count |-> unclosedCount, text |-> "unclosed session(s)"]>>
    ELSE <<>>

\* LateIssue asking for more than three late sessions (> for >=)
LateIssue_MoreThanThree(lateCount) ==
    IF lateCount > 3
    THEN <<[count |-> lateCount, text |-> "late times this week"]>>
    ELSE <<>>

\* `late ${lateCount} times this week`, pushed when lateCount >= 3
LateIssue(lateCount) ==
    IF lateCount >= 3
    THEN <<[count |-> lateCount, text |-> "late times this week"]>>
    ELSE <<>>

\* `left early ${earlyLeaveCount} times this week`, pushed when earlyLeaveCount >= 3
EarlyLeaveIssue(earlyLeaveCount) ==
    IF earlyLeaveCount >= 3
    THEN <<[count |-> earlyLeaveCount, text |-> "left early times this week"]>>
    ELSE <<>>

\* checkAttendanceCompliance(userRecords, userName); startOfDay() reads the clock
checkAttendanceCompliance(userRecords, userName) ==
    LET today == startOfDay(now)
        sevenDaysAgo == daysAgo(7, today)
        unclosedOldSessions == UnclosedOldSessions(userRecords, today)
        recentRecords == RecentRecords(userRecords, sevenDaysAgo)
        lateCount == CountWithTag(recentRecords, "Late")
        earlyLeaveCount == CountWithTag(recentRecords, "Early Leave")
        issues == UnclosedIssue(Len(unclosedOldSessions))
                  \o LateIssue(lateCount)
                  \o EarlyLeaveIssue(earlyLeaveCount)
    IN  IF Len(issues) > 0
        THEN <<[type |-> "excessive_late",
                message |-> [userName |-> userName, issues |-> issues]]>>
        ELSE <<>>

\* the effect on [records, userName, user?.email]: what complianceWarnings holds
\* once the render that committed newRecords has run its effects
ComplianceEffect(newRecords) ==
    IF UserName # "" /\ Len(newRecords) > 0
    THEN checkAttendanceCompliance(
             SelectSeq(newRecords, LAMBDA record : record.email = UserEmail), UserName)
    ELSE complianceWarnings

\* the dismiss button of the warning banner (shown while there is a warning):
\* onDismiss={() => setComplianceWarnings([])}
DismissWarnings ==
    /\ complianceWarnings # <<>>
    /\ complianceWarnings' = <<>>
    /\ phase' = IF phase = "checked" THEN "dismissed" ELSE phase
    /\ UNCHANGED loads
    /\ UNCHANGED <<now, db, records, currentSessionId, error, isLoading, handlers, nextId,
                   session, status>>
    /\ Rerender(TRUE)

-----------------------------------------------------------------------------
(* The load step of the page: loadRecords *)

\* a row of attendance_logs read into an AttendanceRecord (the display name,
\* fetched from the employees table, takes no part in any decision and is left out)
FormatRecord(row) ==
    [id |-> row.id,
     email |-> row.email,
     loginTime |-> row.login_time,
     logoutTime |-> IF row.logout_time # NULL THEN row.logout_time ELSE NULL]

\* the rows of one employee in the order of .order('login_time', {ascending: false});
\* the store returns rows of equal login_time in any order
QueryByEmailDesc(rows, email) ==
    LET matching == {r \in rows : r.email = email}
        n == Cardinality(matching)
    IN  {data \in [1 .. n -> matching] :
            /\ \A i, j \in 1 .. n : i # j => data[i] # data[j]
            /\ \A i \in 1 .. n - 1 : ~Before(data[i].login_time, data[i + 1].login_time)}

\* AutoClose also rewriting a logoutTime that is earlier than the loginTime
AutoClose_RepairingInverted(record, today) ==
    IF /\ Before(startOfDay(record.loginTime), today)
       /\ (record.logoutTime = NULL \/ Before(record.logoutTime, record.loginTime))
    THEN [record EXCEPT !.logoutTime = endOfDay(record.loginTime)]
    ELSE record

\* AutoClose closing the open sessions of today as well (<= for <)
AutoClose_IncludingToday(record, today) ==
    IF record.logoutTime = NULL /\ ~Before(today, startOfDay(record.loginTime))
    THEN [record EXCEPT !.logoutTime = endOfDay(record.loginTime)]
    ELSE record

\* AutoClose sparing the sessions of yesterday (the comparison taken a day early)
AutoClose_SparingYesterday(record, today) ==
    IF record.logoutTime = NULL /\ Before(startOfDay(record.loginTime), daysAgo(1, today))
    THEN [record EXCEPT !.logoutTime = endOfDay(record.loginTime)]
    ELSE record

\* the body of the autoClosedRecords map: an unclosed session of a previous day
\* is closed at 23:59:59.999 of its login day
AutoClose(record, today) ==
    IF record.logoutTime = NULL /\ Before(startOfDay(record.loginTime), today)
    THEN [record EXCEPT !.logoutTime = endOfDay(record.loginTime)]
    ELSE record

\* the predicate of autoClosedRecords.find: unclosed and logged in today
IsActiveToday(r, currentToday) ==
    r.logoutTime = NULL /\ startOfDay(r.loginTime) = currentToday

\* FindActiveSession taking the last match instead of the first
FindActiveSession_Last(recs, currentToday) ==
    LET hits == {i \in DOMAIN recs : IsActiveToday(recs[i], currentToday)}
    IN  IF hits = {} THEN NULL
        ELSE recs[CHOOSE i \in hits : \A j \in hits : j <= i]

\* autoClosedRecords.find(...): the first match, or null (undefined)
FindActiveSession(recs, currentToday) ==
    LET hits == {i \in DOMAIN recs : IsActiveToday(recs[i], currentToday)}
    IN  IF hits = {} THEN NULL
        ELSE recs[CHOOSE i \in hits : \A j \in hits : i <= j]

\* RetentionFilter keeping the record that logged in exactly at the cutoff (>= for >)
RetentionFilter_Inclusive(recs, cutoffDate) ==
    SelectSeq(recs, LAMBDA record : ~Before(record.loginTime, cutoffDate))

\* autoClosedRecords.filter(record => record.loginTime > cutoffDate)
RetentionFilter(recs, cutoffDate) ==
    SelectSeq(recs, LAMBDA record : Before(cutoffDate, record.loginTime))

\* InsertByLoginDesc putting r in front of the records that log in at the same
\* instant (an unstable sort: <= for <)
RECURSIVE InsertByLoginDesc_Unstable(_, _)
InsertByLoginDesc_Unstable(r, sorted) ==
    IF sorted = <<>> THEN <<r>>
    ELSE IF ~Before(r.loginTime, Head(sorted).loginTime)
    THEN <<r>> \o sorted
    ELSE <<Head(sorted)>> \o InsertByLoginDesc_Unstable(r, Tail(sorted))

\* one step of the stable sort: r goes behind every record that does not log in
\* earlier than r (comparator b.loginTime - a.loginTime)
RECURSIVE InsertByLoginDesc(_, _)
InsertByLoginDesc(r, sorted) ==
    IF sorted = <<>> THEN <<r>>
    ELSE IF Before(Head(sorted).loginTime, r.loginTime)
    THEN <<r>> \o sorted
    ELSE <<Head(sorted)>> \o InsertByLoginDesc(r, Tail(sorted))

\* recs.sort((a, b) => b.loginTime.getTime() - a.loginTime.getTime()), a stable sort
RECURSIVE SortByLoginDesc(_)
SortByLoginDesc(recs) ==
    IF recs = <<>> THEN <<>>
    ELSE InsertByLoginDesc(recs[Len(recs)], SortByLoginDesc(SubSeq(recs, 1, Len(recs) - 1)))

\* loadRecords from the formatted records on: auto-close, active session,
\* retention, sort; the sessions it hands to setRecords and the active session
NormalizeRecords(formattedRecords) ==
    LET today == startOfDay(now)
        autoClosedRecords == [i \in DOMAIN formattedRecords |->
                                 AutoClose(formattedRecords[i], today)]
        currentToday == startOfDay(now)
        activeSession == FindActiveSession(autoClosedRecords, currentToday)
        cutoffDate == daysAgo(RETENTION_DAYS, now)
        validRecords == RetentionFilter(autoClosedRecords, cutoffDate)
    IN  [sessions |-> SortByLoginDesc(validRecords), activeSession |-> activeSession]

\* loadRecords once the query has answered with data; error keeps its value, and
\* the compliance effect runs on the new records
LoadRecordsFrom(data) ==
    LET formattedRecords == [i \in DOMAIN data |-> FormatRecord(data[i])]
        result == NormalizeRecords(formattedRecords)
    IN  /\ currentSessionId' = IF result.activeSession # NULL
                               THEN result.activeSession.id
                               ELSE NoSessionId
        /\ records' = result.sessions
        /\ complianceWarnings' = ComplianceEffect(records')
        /\ isLoading' = FALSE
        /\ UNCHANGED error

\* the invocations of the handlers, the writes of pages that are gone and the
\* runs of loadRecords that are in flight
InFlight ==
    Cardinality({h \in DOMAIN handlers : handlers[h].pc # "idle"})
    + Cardinality({l \in DOMAIN loads : loads[l].pc # "idle"})

\* the effect on [user, userName] of the current page runs loadRecords again
\* (the auth listener of its AuthContext has set a new user object; the earlier
\* page has no such listener): the query is sent; l is the first free slot,
\* and at most MaxInFlight operations are in flight together
LoadRecordsStart(l) ==
    /\ InFlight < MaxInFlight
    /\ loads[l].pc = "idle"
    /\ \A k \in 1 .. l - 1 : loads[k].pc # "idle"
    /\ loads' = [loads EXCEPT ![l] = [pc |-> "query", data |-> <<>>]]
    /\ UNCHANGED <<now, db, records, currentSessionId, error, isLoading, handlers, nextId,
                   complianceWarnings, session, status, phase>>
    /\ Rerender(TRUE)

\* the store executes the query: the answer it will deliver is the rows of the
\* user as they are now
LoadRecordsQueryExecuted(l) ==
    /\ loads[l].pc = "query"
    /\ \E data \in QueryByEmailDesc(db, UserEmail) :
          loads' = [loads EXCEPT ![l] = [pc |-> "queried", data |-> data]]
    /\ UNCHANGED <<now, db, records, currentSessionId, error, isLoading, handlers, nextId,
                   complianceWarnings, session, status, phase>>
    /\ UNCHANGED rendered

\* the answer of the query is delivered with rows: loadRecords formats them and
\* sends the request for the names of the employees
LoadRecordsFetched(l) ==
    /\ loads[l].pc = "queried"
    /\ loads[l].data # <<>>
    /\ loads' = [loads EXCEPT ![l] = [pc |-> "employees", data |-> loads[l].data]]
    /\ UNCHANGED <<now, db, records, currentSessionId, error, isLoading, handlers, nextId,
                   complianceWarnings, session, status, phase>>
    /\ UNCHANGED rendered

\* loadRecords runs to its end: with the answer of the query when it holds no
\* row, with the answer of the employees request (names or an error) otherwise;
\* the state is set from the rows the query delivered
LoadRecords(l) ==
    /\ \/ loads[l].pc = "queried" /\ loads[l].data = <<>>
       \/ loads[l].pc = "employees"
    /\ LoadRecordsFrom(loads[l].data)
    /\ loads' = [loads EXCEPT ![l] = LoadIdle]
    /\ phase' = "loaded"
    /\ UNCHANGED <<now, db, handlers, nextId, session, status>>
    /\ Rerender(TRUE)

\* the message loadRecords sets when the query answers with an error, and the
\* message of its catch block, when the request is rejected
LoadFailureMessages ==
    {"Failed to load attendance records",
     "Failed to load attendance records. Some data might be corrupted."}

\* the query of loadRecords fails
LoadRecordsError(l) ==
    /\ loads[l].pc \in {"query", "queried"}
    /\ error' \in LoadFailureMessages
    /\ isLoading' = FALSE
    /\ loads' = [loads EXCEPT ![l] = LoadIdle]
    /\ phase' = "loadFailed"
    /\ UNCHANGED <<now, db, records, currentSessionId, handlers, nextId,
                   complianceWarnings, session, status>>
    /\ Rerender(FALSE)

-----------------------------------------------------------------------------
(* Clock-in and clock-out: handleClockIn, handleClockOut                   *)
(*                                                                         *)
(* A handler runs to its first await in one step. Every await is two      *)
(* further steps: the store executes the request, and later the answer is  *)
(* delivered to the page and the handler continues with it. The steps of   *)
(* two invocations interleave at the awaits as they do in the event loop,  *)
(* and the store may execute other requests between the two steps.        *)
(* The signed-in user and a non-blank userName are present throughout: the *)
(* page renders nothing without a user.                                    *)

\* the message of the catch block of handleClockIn: error.message when the
\* thrown store error is an Error, the fixed text otherwise
ClockInFailureMessages == {"Failed to clock in. Please try again.", "store error message"}

\* the other state a handler step leaves alone
HandlerFrame == UNCHANGED <<now, session, status, phase, loads>>

\* a click starts invocation h: the page takes clicks (it shows the loading
\* screen while isLoading), h is the first free slot (invocations are alike),
\* and at most MaxInFlight operations are in flight together
CanStart(h) ==
    /\ isLoading = FALSE
    /\ InFlight < MaxInFlight
    /\ handlers[h].pc = "idle"
    /\ \A g \in 1 .. h - 1 : handlers[g].pc # "idle"

\* RowsOfDay without the two bounds on login_time: every row of the employee
RowsOfDay_AnyDay(rows, email, todayStart) ==
    {r \in rows : r.email = email}

\* the rows .eq('email', ...).gte('login_time', todayStart).lt('login_time', tomorrowStart)
RowsOfDay(rows, email, todayStart) ==
    LET tomorrowStart == daysAgo(0 - 1, todayStart)
    IN  {r \in rows : /\ r.email = email
                      /\ ~Before(r.login_time, todayStart)
                      /\ Before(r.login_time, tomorrowStart)}

\* EarliestRows naming the latest rows of the day (descending for ascending order)
EarliestRows_Latest(rows) ==
    {r \in rows : \A o \in rows : ~Before(r.login_time, o.login_time)}

\* the rows that can be existingRecords[0] under .order('login_time', {ascending: true})
EarliestRows(rows) ==
    {r \in rows : \A o \in rows : ~Before(o.login_time, r.login_time)}

\* setRecords of handleClockIn: drop the record of the same id, put the new
\* one in front, sort by loginTime descending
WithRecord(prevRecords, updatedRecord) ==
    LET filtered == SelectSeq(prevRecords, LAMBDA r : r.id # updatedRecord.id)
    IN  SortByLoginDesc(<<updatedRecord>> \o filtered)

\* ClockInStart without the guard on currentSessionId
ClockInStart_Unguarded(h) ==
    /\ CanStart(h)
    /\ error' = NoError
    /\ handlers' = [handlers EXCEPT ![h] =
                      [pc |-> "ci_fetch", id |-> NoSessionId, at |-> startOfDay(now)]]
    /\ UNCHANGED <<db, records, currentSessionId, isLoading, nextId, complianceWarnings>>
    /\ HandlerFrame
    /\ Rerender(FALSE)

\* handleClockIn up to its first await: the guard, then the select of today's rows
ClockInStart(h) ==
    /\ CanStart(h)
    /\ IF currentSessionId # NoSessionId
       THEN /\ error' = "You are already clocked in!"
            /\ UNCHANGED handlers
       ELSE /\ error' = NoError
            /\ handlers' = [handlers EXCEPT ![h] =
                              [pc |-> "ci_fetch", id |-> NoSessionId, at |-> startOfDay(now)]]
    /\ UNCHANGED <<db, records, currentSessionId, isLoading, nextId, complianceWarnings>>
    /\ HandlerFrame
    /\ Rerender(FALSE)

\* the store executes the select of today's rows: the answer it will deliver is
\* the first row of the day as it is now, or no row; the handler keeps its
\* `today`, the start of the day of the click
ClockInSelectExecuted(h) ==
    /\ handlers[h].pc = "ci_fetch"
    /\ LET existingRecords == RowsOfDay(db, UserEmail, handlers[h].at)
       IN  IF existingRecords # {}
           THEN \E first \in EarliestRows(existingRecords) :
                   handlers' = [handlers EXCEPT ![h] =
                                  [pc |-> "ci_fetched", id |-> first.id,
                                   at |-> handlers[h].at]]
           ELSE handlers' = [handlers EXCEPT ![h] =
                               [pc |-> "ci_fetched", id |-> NoSessionId,
                                at |-> handlers[h].at]]
    /\ UNCHANGED <<db, records, currentSessionId, error, isLoading, nextId,
                   complianceWarnings>>
    /\ HandlerFrame
    /\ UNCHANGED rendered

\* the answer of the select is delivered: the handler sends the update of the
\* first row of the day, or the insert of a fresh row with login_time new Date()
ClockInFetched(h) ==
    /\ handlers[h].pc = "ci_fetched"
    /\ IF handlers[h].id # NoSessionId
       THEN handlers' = [handlers EXCEPT ![h] =
                           [pc |-> "ci_update", id |-> handlers[h].id,
                            at |-> handlers[h].at]]
       ELSE handlers' = [handlers EXCEPT ![h] =
                           [pc |-> "ci_insert", id |-> NoSessionId, at |-> now]]
    /\ UNCHANGED <<db, records, currentSessionId, error, isLoading, nextId,
                   complianceWarnings>>
    /\ HandlerFrame
    /\ UNCHANGED rendered

\* the store executes the update that clears logout_time; the answer it will
\* deliver is the row as it is then
ClockInUpdateExecuted(h) ==
    /\ handlers[h].pc = "ci_update"
    /\ \E row \in {r \in db : r.id = handlers[h].id} :
          LET resultData == [row EXCEPT !.logout_time = NULL]
          IN  /\ db' = (db \ {row}) \cup {resultData}
              /\ handlers' = [handlers EXCEPT ![h] =
                                [pc |-> "ci_updated", id |-> resultData.id,
                                 at |-> resultData.login_time]]
    /\ UNCHANGED <<records, currentSessionId, error, isLoading, nextId, complianceWarnings>>
    /\ HandlerFrame
    /\ UNCHANGED rendered

\* the answer of the update is delivered: the row, with no logout_time
ClockInUpdated(h) ==
    /\ handlers[h].pc = "ci_updated"
    /\ LET resultData == [id |-> handlers[h].id, email |-> UserEmail,
                          login_time |-> handlers[h].at, logout_time |-> NULL]
       IN  /\ records' = WithRecord(records, FormatRecord(resultData))
           /\ currentSessionId' = resultData.id
           /\ complianceWarnings' = ComplianceEffect(records')
    /\ isLoading' = FALSE
    /\ handlers' = [handlers EXCEPT ![h] = Idle]
    /\ UNCHANGED <<db, error, nextId>>
    /\ HandlerFrame
    /\ Rerender(TRUE)

\* the store executes the insert (while it has an id to give): the fresh row gets its primary key
ClockInInsertExecuted(h) ==
    /\ handlers[h].pc = "ci_insert"
    /\ nextId <= MaxIds
    /\ LET resultData == [id |-> nextId, email |-> UserEmail,
                          login_time |-> handlers[h].at, logout_time |-> NULL]
       IN  /\ db' = db \cup {resultData}
           /\ handlers' = [handlers EXCEPT ![h] =
                             [pc |-> "ci_inserted", id |-> resultData.id,
                              at |-> resultData.login_time]]
    /\ nextId' = nextId + 1
    /\ UNCHANGED <<records, currentSessionId, error, isLoading, complianceWarnings>>
    /\ HandlerFrame
    /\ UNCHANGED rendered

\* the answer of the insert is delivered: the fresh row
ClockInInserted(h) ==
    /\ handlers[h].pc = "ci_inserted"
    /\ LET resultData == [id |-> handlers[h].id, email |-> UserEmail,
                          login_time |-> handlers[h].at, logout_time |-> NULL]
       IN  /\ records' = WithRecord(records, FormatRecord(resultData))
           /\ currentSessionId' = resultData.id
           /\ complianceWarnings' = ComplianceEffect(records')
    /\ isLoading' = FALSE
    /\ handlers' = [handlers EXCEPT ![h] = Idle]
    /\ UNCHANGED <<db, error, nextId>>
    /\ HandlerFrame
    /\ Rerender(TRUE)

\* a request of handleClockIn answers with an error (the select, the update
\* or the insert; .single() also fails when the row to update is gone), before
\* the store has executed it or after: catch and finally
ClockInFailed(h) ==
    /\ handlers[h].pc \in {"ci_fetch", "ci_fetched", "ci_update", "ci_updated",
                           "ci_insert", "ci_inserted"}
    /\ error' \in ClockInFailureMessages
    /\ isLoading' = FALSE
    /\ handlers' = [handlers EXCEPT ![h] = Idle]
    /\ UNCHANGED <<db, records, currentSessionId, nextId, complianceWarnings>>
    /\ HandlerFrame
    /\ Rerender(FALSE)

\* handleClockOut up to its await: the guards, then the update of logout_time
ClockOutStart(h) ==
    /\ CanStart(h)
    /\ IF currentSessionId = NoSessionId
       THEN /\ error' = "You are not currently clocked in!"
            /\ UNCHANGED handlers
       ELSE LET found == {i \in DOMAIN records : records[i].id = currentSessionId}
                tooEarly == \E i \in found :
                               /\ \A j \in found : i <= j
                               /\ Before(now, records[i].loginTime)
            IN  IF tooEarly
                THEN /\ error' = "Clock-out time cannot be earlier than clock-in time!"
                     /\ UNCHANGED handlers
                ELSE /\ error' = NoError
                     /\ handlers' = [handlers EXCEPT ![h] =
                                       [pc |-> "co_update", id |-> currentSessionId, at |-> now]]
    /\ UNCHANGED <<db, records, currentSessionId, isLoading, nextId, complianceWarnings>>
    /\ HandlerFrame
    /\ Rerender(FALSE)

\* the store executes the update of logout_time
ClockOutUpdateExecuted(h) ==
    /\ handlers[h].pc = "co_update"
    /\ \E row \in {r \in db : r.id = handlers[h].id} :
          LET data == [row EXCEPT !.logout_time = handlers[h].at]
          IN  /\ db' = (db \ {row}) \cup {data}
              /\ handlers' = [handlers EXCEPT ![h] =
                                [pc |-> "co_updated", id |-> data.id, at |-> data.logout_time]]
    /\ UNCHANGED <<records, currentSessionId, error, isLoading, nextId, complianceWarnings>>
    /\ HandlerFrame
    /\ UNCHANGED rendered

\* the answer of the update is delivered: the row with its logout_time
ClockOutUpdated(h) ==
    /\ handlers[h].pc = "co_updated"
    /\ records' = [i \in DOMAIN records |->
                      IF records[i].id = handlers[h].id
                      THEN [records[i] EXCEPT !.logoutTime = handlers[h].at]
                      ELSE records[i]]
    /\ currentSessionId' = NoSessionId
    /\ complianceWarnings' = ComplianceEffect(records')
    /\ handlers' = [handlers EXCEPT ![h] = Idle]
    /\ UNCHANGED <<db, error, isLoading, nextId>>
    /\ HandlerFrame
    /\ Rerender(TRUE)

\* ClockOutFailed giving the session up when the update fails
ClockOutFailed_SessionCleared(h) ==
    /\ handlers[h].pc \in {"co_update", "co_updated"}
    /\ error' = "Failed to clock out. Please try again."
    /\ currentSessionId' = NoSessionId
    /\ handlers' = [handlers EXCEPT ![h] = Idle]
    /\ UNCHANGED <<db, records, isLoading, nextId, complianceWarnings>>
    /\ HandlerFrame
    /\ Rerender(FALSE)

\* the update of handleClockOut answers with an error, before the store has
\* executed it or after: catch
ClockOutFailed(h) ==
    /\ handlers[h].pc \in {"co_update", "co_updated"}
    /\ error' = "Failed to clock out. Please try again."
    /\ handlers' = [handlers EXCEPT ![h] = Idle]
    /\ UNCHANGED <<db, records, currentSessionId, isLoading, nextId, complianceWarnings>>
    /\ HandlerFrame
    /\ Rerender(FALSE)

-----------------------------------------------------------------------------
(* Specification of the classifier: getStatus applied to one session *)

\* the calendar day of "today"; day numbers stay positive RETENTION_DAYS back
Today == RETENTION_DAYS + 10

\* the day the classified sessions log in
ClassifyDay == Today

\* every hour:minute of a day, at the start and at the last millisecond of the minute
EveryMinute(day) ==
    {Date(day, TimeOfDay(h, mi, s, milli)) :
        h \in 0 .. 23, mi \in 0 .. 59, s \in {0, 59}, milli \in {0, 999}}

\* every loginTime the classifier is given: missing, no valid instant, or any minute
AllLogins == {NULL, InvalidDate} \cup EveryMinute(ClassifyDay)

\* every logoutTime the classifier is given: none, any minute of the login
\* day, or a time on the day after or the day before
AllLogouts ==
    {NULL}
    \cup EveryMinute(ClassifyDay)
    \cup {Date(ClassifyDay + 1, TimeOfDay(1, 0, 0, 0)),
          Date(ClassifyDay - 1, TimeOfDay(20, 0, 0, 0))}

\* the login times paired with every logoutTime
SomeLogins ==
    {NULL, InvalidDate}
    \cup {Date(ClassifyDay, TimeOfDay(h, mi, 0, 0)) :
            h \in {0, 9, 10, 19, 23}, mi \in {0, 29, 30, 59}}

\* the logout times paired with every loginTime
SomeLogouts ==
    {NULL}
    \cup {Date(ClassifyDay, TimeOfDay(h, mi, 0, 0)) :
            h \in {0, 9, 18, 19, 23}, mi \in {0, 30, 31, 59}}
    \cup {Date(ClassifyDay, TimeOfDay(19, 30, 59, 999)),
          Date(ClassifyDay, TimeOfDay(23, 59, 59, 999)),
          Date(ClassifyDay + 1, TimeOfDay(1, 0, 0, 0)),
          Date(ClassifyDay - 1, TimeOfDay(20, 0, 0, 0))}

\* the sessions handed to the classifier
ClassifiedSessions ==
    [loginTime : AllLogins, logoutTime : SomeLogouts]
    \cup [loginTime : SomeLogins, logoutTime : AllLogouts]

InitClassify ==
    /\ session \in ClassifiedSessions
    /\ status = <<>>
    /\ phase = "input"
    /\ now = Date(ClassifyDay, 0)
    /\ db = {}
    /\ nextId = 1
    /\ PageMounted

Classify ==
    /\ phase = "input"
    /\ status' = getStatus(session.loginTime, session.logoutTime)
    /\ phase' = "classified"
    /\ UNCHANGED loads
    /\ UNCHANGED <<now, db, records, currentSessionId, error, isLoading, handlers, nextId,
                   complianceWarnings, session>>
    /\ UNCHANGED rendered

NextClassify == Classify

SpecClassify == InitClassify /\ [][NextClassify]_vars

-----------------------------------------------------------------------------
(* Properties of the classifier *)

EntryTags == {"Early Entry", "Good Entry", "Late"}

ExitTags == {"Early Leave", "Good Exit", "Overtime"}

\* the positions of a tag list that hold a tag of the set S
TagsIn(tags, S) == {i \in DOMAIN tags : tags[i] \in S}

\* hour:minute as minutes since midnight
HourMinute(t) == (t.ms \div MsPerMinute)

Classified == phase = "classified"

\* C4: a session whose logoutTime is earlier than its loginTime gets the entry
\* tag alone, no exit tag is appended
C4_NoExitTagWhenLogoutBeforeLogin ==
    (/\ Classified
     /\ IsValidDate(session.loginTime)
     /\ session.logoutTime # NULL
     /\ Before(session.logoutTime, session.loginTime))
    => (Len(status) = 1 /\ TagsIn(status, ExitTags) = {})

\* C7: a valid loginTime gives a non-empty list without Invalid Time, and the
\* result is exactly [Invalid Time] iff loginTime is missing or no valid instant
C7_ClassificationTotality ==
    Classified =>
        /\ IsValidDate(session.loginTime)
              => (Len(status) > 0 /\ TagsIn(status, {"Invalid Time"}) = {})
        /\ (status = <<"Invalid Time">>) <=> ~IsValidDate(session.loginTime)

C7_Witness ==
    /\ Classified
    /\ session.loginTime = InvalidDate
    /\ session.logoutTime # NULL
    /\ status = <<"Invalid Time">>

\* C8: exactly one entry tag, the first of the list: Early Entry strictly before
\* 09:30, Good Entry from 09:30 up to and including 10:00 + grace, Late after it
C8_EntryTag ==
    (Classified /\ IsValidDate(session.loginTime)) =>
        LET hm == HourMinute(session.loginTime)
            graceEnd == OFFICE_START_HOUR * 60 + GRACE_PERIOD_MINUTES
            expected == IF hm < 9 * 60 + 30 THEN "Early Entry"
                        ELSE IF hm <= graceEnd THEN "Good Entry"
                        ELSE "Late"
        IN  /\ Cardinality(TagsIn(status, EntryTags)) = 1
            /\ status[1] = expected

C8_Witness ==
    /\ Classified
    /\ session.loginTime = Date(ClassifyDay, TimeOfDay(10, 0, 59, 999))
    /\ status[1] = "Good Entry"

\* C9: a logoutTime not earlier than loginTime gives exactly one exit tag: Early
\* Leave before 19:00, Good Exit from 19:00 to 19:30 inclusive, Overtime after
\* 19:30; a session with no logoutTime gets no exit tag
C9_ExitTag ==
    (Classified /\ IsValidDate(session.loginTime)) =>
        /\ session.logoutTime = NULL => TagsIn(status, ExitTags) = {}
        /\ (session.logoutTime # NULL /\ ~Before(session.logoutTime, session.loginTime)) =>
              LET hm == HourMinute(session.logoutTime)
                  expected == IF hm < OFFICE_END_HOUR * 60 THEN "Early Leave"
                              ELSE IF hm <= OFFICE_END_HOUR * 60 + 30 THEN "Good Exit"
                              ELSE "Overtime"
              IN  /\ Cardinality(TagsIn(status, ExitTags)) = 1
                  /\ Len(status) = 2
                  /\ status[2] = expected

C9_Witness ==
    /\ Classified
    /\ session.loginTime = Date(ClassifyDay, TimeOfDay(9, 30, 0, 0))
    /\ session.logoutTime = Date(ClassifyDay, TimeOfDay(19, 30, 59, 999))
    /\ status = <<"Good Entry", "Good Exit">>

-----------------------------------------------------------------------------
(* Specification of the classifier on two sessions: getStatus applied to a  *)
(* session A and a session B                                                *)

\* the login times of session A: the first and the last millisecond of every
\* minute of the day of B and of the next day
LoginsA ==
    {Date(d, TimeOfDay(h, mi, 0, 0) + e) :
        d \in {ClassifyDay, ClassifyDay + 1}, h \in 0 .. 23, mi \in 0 .. 59,
        e \in {0, MsPerMinute - 1}}

\* the login times of session B
LoginsB ==
    {Date(ClassifyDay, TimeOfDay(h, mi, s, 0)) :
        h \in {0, 9, 10, 11, 23}, mi \in {0, 1, 59}, s \in {0, 59}}

InitPair ==
    /\ session \in {<<[loginTime |-> a, logoutTime |-> NULL],
                      [loginTime |-> b, logoutTime |-> NULL]>> : a \in LoginsA, b \in LoginsB}
    /\ status = <<>>
    /\ phase = "input"
    /\ now = Date(ClassifyDay + 1, TimeOfDay(23, 59, 59, 999))
    /\ db = {}
    /\ nextId = 1
    /\ PageMounted

\* getStatus called on A and on B
ClassifyPair ==
    /\ phase = "input"
    /\ status' = [i \in DOMAIN session |->
                     getStatus(session[i].loginTime, session[i].logoutTime)]
    /\ phase' = "classified"
    /\ UNCHANGED loads
    /\ UNCHANGED <<now, db, records, currentSessionId, error, isLoading, handlers, nextId,
                   complianceWarnings, session>>
    /\ UNCHANGED rendered

NextPair == ClassifyPair

SpecPair == InitPair /\ [][NextPair]_vars

\* a.getTime() - b.getTime() is more than the given number of minutes
LaterByMoreThan(a, b, minutes) ==
    (a.day - b.day) * MsPerDay + a.ms - b.ms > minutes * MsPerMinute

\* C18 as claimed: A logs in later than B by more than the grace period, on the
\* same day or on another day, and B is Late: then A is Late
C18_MonotoneAnyDay ==
    (/\ Classified
     /\ LaterByMoreThan(session[1].loginTime, session[2].loginTime, GRACE_PERIOD_MINUTES)
     /\ Includes(status[2], "Late"))
    => Includes(status[1], "Late")

\* C18 amended: A logs in on the calendar day of B, later than B by more than
\* the grace period, and B is Late: then A is Late
C18_MonotoneSameDay ==
    (/\ Classified
     /\ session[1].loginTime.day = session[2].loginTime.day
     /\ LaterByMoreThan(session[1].loginTime, session[2].loginTime, GRACE_PERIOD_MINUTES)
     /\ Includes(status[2], "Late"))
    => Includes(status[1], "Late")

C18_Witness ==
    /\ Classified
    /\ session[2].loginTime = Date(ClassifyDay, TimeOfDay(10, 1, 0, 0))
    /\ session[1].loginTime = Date(ClassifyDay, TimeOfDay(11, 0, 0, 0))
    /\ status = <<<<"Late">>, <<"Late">>>>

-----------------------------------------------------------------------------
(* Specification of the load step: loadRecords applied to a stored table *)

\* the largest number of rows in the stored table
MaxRows == 2

\* the instants at which the page is loaded
LoadInstants == {Date(Today, TimeOfDay(11, 0, 0, 0)), Date(Today, TimeOfDay(18, 0, 0, 0))}

\* login times of stored rows, seen from the instant asOf: two of today, one of
\* yesterday, one exactly RETENTION_DAYS back, one a millisecond later, one older
StoredLogins(asOf) ==
    {Date(asOf.day, TimeOfDay(9, 10, 0, 0)),
     Date(asOf.day, TimeOfDay(10, 5, 0, 0)),
     Date(asOf.day - 1, TimeOfDay(9, 0, 0, 0)),
     Date(asOf.day - RETENTION_DAYS, asOf.ms),
     Date(asOf.day - RETENTION_DAYS, asOf.ms + 1),
     Date(asOf.day - RETENTION_DAYS - 1, TimeOfDay(10, 0, 0, 0))}

\* logout times of a stored row: none, one later than login, one earlier than login
StoredLogouts(login) ==
    {NULL, Date(login.day, TimeOfDay(19, 15, 0, 0)), Date(login.day, TimeOfDay(8, 0, 0, 0))}

\* a row without its id: a row of the employee with any of the login times and
\* logout times, or a row of the colleague logged in today (open, or closed)
RowShapes(asOf) ==
    UNION {{[email |-> UserEmail, login_time |-> li, logout_time |-> lo] :
               lo \in StoredLogouts(li)} : li \in StoredLogins(asOf)}
    \cup {[email |-> OtherEmail, login_time |-> Date(asOf.day, TimeOfDay(9, 10, 0, 0)),
           logout_time |-> lo] :
             lo \in {NULL, Date(asOf.day, TimeOfDay(19, 15, 0, 0))}}

\* the tables of n rows with the primary keys 1 .. n
Tables(asOf, n) ==
    {{[id |-> i, email |-> f[i].email, login_time |-> f[i].login_time,
       logout_time |-> f[i].logout_time] : i \in 1 .. n} :
        f \in [1 .. n -> {sh \in RowShapes(asOf) :
                             sh.logout_time \in StoredLogouts(sh.login_time)}]}

InitNorm ==
    /\ now \in LoadInstants
    /\ db \in UNION {Tables(now, n) : n \in 0 .. MaxRows}
    /\ nextId = Cardinality(db) + 1
    /\ phase = "mounted"
    /\ PageMounted
    /\ NoClassifier

NextNorm ==
    \/ \E l \in 1 .. MaxLoads : LoadRecordsQueryExecuted(l)
    \/ \E l \in 1 .. MaxLoads : LoadRecordsFetched(l)
    \/ \E l \in 1 .. MaxLoads : LoadRecords(l)
    \/ \E l \in 1 .. MaxLoads : LoadRecordsError(l)

SpecNorm == InitNorm /\ [][NextNorm]_vars

-----------------------------------------------------------------------------
(* Properties of the load step *)

Loaded == phase = "loaded"

\* the stored rows of the signed-in employee
UserRows == {r \in db : r.email = UserEmail}

\* the positions of records that hold the row id
RecordsOf(id) == {i \in DOMAIN records : records[i].id = id}

\* the open sessions among records that logged in on the day of asOf
OpenToday == {i \in DOMAIN records :
                records[i].logoutTime = NULL /\ records[i].loginTime.day = now.day}

\* the stored open rows of the employee that logged in on the day of asOf
OpenRowsToday == {r \in UserRows : r.logout_time = NULL /\ r.login_time.day = now.day}

\* asOf minus RETENTION_DAYS days
RetentionCutoff == Date(now.day - RETENTION_DAYS, now.ms)

\* C1: an open session that logged in on a day before the day of asOf comes out
\* with logoutTime 23:59:59.999 of its own login day (it is in the output when
\* it is inside the retention window); an open session that logged in on the
\* day of asOf is in the output and still open
C1_AutoClose ==
    Loaded =>
        \A r \in UserRows :
            /\ (r.logout_time = NULL /\ r.login_time.day < now.day) =>
                  /\ \A i \in RecordsOf(r.id) :
                        records[i].logoutTime = Date(r.login_time.day, MsPerDay - 1)
                  /\ Before(RetentionCutoff, r.login_time) => RecordsOf(r.id) # {}
            /\ (r.logout_time = NULL /\ r.login_time.day = now.day) =>
                  /\ RecordsOf(r.id) # {}
                  /\ \A i \in RecordsOf(r.id) : records[i].logoutTime = NULL

C1_Witness ==
    /\ Loaded
    /\ \E r \in UserRows :
          /\ r.logout_time = NULL
          /\ r.login_time.day = now.day - 1
          /\ \E i \in RecordsOf(r.id) :
                records[i].logoutTime = Date(now.day - 1, TimeOfDay(23, 59, 59, 999))
    /\ \E r \in UserRows :
          /\ r.logout_time = NULL
          /\ r.login_time.day = now.day
          /\ \E i \in RecordsOf(r.id) : records[i].logoutTime = NULL

\* C2: after the load at most one session is open with a login on the day of asOf
C2_AtMostOneOpenToday ==
    Loaded => Cardinality(OpenToday) <= 1

\* C5: with more than one open session logged in on the day of asOf, the active
\* session is the one with the earliest loginTime
C5_ActiveIsEarliest ==
    (Loaded /\ Cardinality(OpenRowsToday) > 1) =>
        \E r \in OpenRowsToday :
            /\ currentSessionId = r.id
            /\ \A o \in OpenRowsToday : ~Before(o.login_time, r.login_time)

\* C6: with more than one open session logged in on the day of asOf, the load
\* reports the anomaly (the page has no other channel than its error state)
C6_MultipleOpenReported ==
    (Loaded /\ Cardinality(OpenRowsToday) > 1) => error # NoError

\* C10: every session of the output logged in strictly later than asOf minus
\* RETENTION_DAYS days; a row at or before that cutoff is not in the output
C10_Retention ==
    Loaded =>
        /\ \A i \in DOMAIN records : Before(RetentionCutoff, records[i].loginTime)
        /\ \A r \in UserRows :
              ~Before(RetentionCutoff, r.login_time) => RecordsOf(r.id) = {}

C10_Witness ==
    /\ Loaded
    /\ \E r \in UserRows : r.login_time = RetentionCutoff /\ RecordsOf(r.id) = {}
    /\ \E r \in UserRows :
          /\ r.login_time = Date(RetentionCutoff.day, RetentionCutoff.ms + 1)
          /\ r.logout_time = NULL
          /\ RecordsOf(r.id) # {}

\* C12: every session of the output is a stored row with its id, subject and
\* loginTime; a row that has a logoutTime keeps it (also one earlier than its
\* loginTime); the only logoutTime written is that of an open row of a previous day
C12_Frame ==
    Loaded =>
        \A i \in DOMAIN records :
            \E r \in UserRows :
                /\ records[i].id = r.id
                /\ records[i].email = r.email
                /\ records[i].loginTime = r.login_time
                /\ r.logout_time # NULL => records[i].logoutTime = r.logout_time
                /\ records[i].logoutTime # r.logout_time =>
                      (r.logout_time = NULL /\ r.login_time.day < now.day)

C12_Witness ==
    /\ Loaded
    /\ \E r \in UserRows :
          /\ r.logout_time # NULL
          /\ Before(r.logout_time, r.login_time)
          /\ r.login_time.day < now.day
          /\ \E i \in RecordsOf(r.id) : records[i].logoutTime = r.logout_time
    /\ \E r \in UserRows :
          /\ r.logout_time = NULL
          /\ r.login_time.day < now.day
          /\ \E i \in RecordsOf(r.id) : records[i].logoutTime # NULL

-----------------------------------------------------------------------------
(* Specification of the load step applied twice: the sessions loadRecords  *)
(* hands to the page are normalized once more at the same instant          *)

\* auto-close, active session, retention and sort applied to the records the
\* first load produced, at the same asOf
NormalizeAgain ==
    /\ phase = "loaded"
    /\ LET result == NormalizeRecords(records)
       IN  /\ records' = result.sessions
           /\ currentSessionId' = IF result.activeSession # NULL
                                  THEN result.activeSession.id
                                  ELSE NoSessionId
    /\ phase' = "normalizedAgain"
    /\ UNCHANGED loads
    /\ UNCHANGED <<now, db, error, isLoading, handlers, nextId, complianceWarnings,
                   session, status>>
    /\ Rerender(TRUE)

NextTwice ==
    \/ \E l \in 1 .. MaxLoads : LoadRecordsQueryExecuted(l)
    \/ \E l \in 1 .. MaxLoads : LoadRecordsFetched(l)
    \/ \E l \in 1 .. MaxLoads : LoadRecords(l)
    \/ \E l \in 1 .. MaxLoads : LoadRecordsError(l)
    \/ NormalizeAgain

SpecTwice == InitNorm /\ [][NextTwice]_vars

\* C11: normalizing the sessions of a normalize result again, with the same asOf
\* and retention, returns the same sessions (logoutTimes, membership, order) and
\* the same active session
C11_Idempotent ==
    [][(phase = "loaded" /\ phase' = "normalizedAgain")
          => (records' = records /\ currentSessionId' = currentSessionId)]_vars

C11_Witness ==
    /\ phase = "normalizedAgain"
    /\ Len(records) = 2
    /\ records[1].loginTime = records[2].loginTime
    /\ records[1].logoutTime = NULL
    /\ records[2].logoutTime = NULL
    /\ records[1].loginTime.day = now.day
    /\ currentSessionId = records[1].id

-----------------------------------------------------------------------------
(* Specification of a session left open: one stored row without            *)
(* logout_time is loaded and its row of the attendance table is rendered   *)

\* the instants at which the page is loaded
OvernightInstants == {Date(Today, TimeOfDay(0, 0, 0, 0)), Date(Today, TimeOfDay(9, 0, 0, 0))}

\* the login time of the open row: the first and the last millisecond of every
\* minute of yesterday, and some minutes of the day before and of today
OvernightLogins ==
    {Date(Today - 1, TimeOfDay(h, mi, 0, 0) + e) :
        h \in 0 .. 23, mi \in 0 .. 59, e \in {0, MsPerMinute - 1}}
    \cup {Date(d, TimeOfDay(h, 0, 0, 0)) : d \in {Today - 2, Today}, h \in {0, 9, 20}}

InitOvernight ==
    /\ now \in OvernightInstants
    /\ \E li \in OvernightLogins :
          db = {[id |-> 1, email |-> UserEmail, login_time |-> li, logout_time |-> NULL]}
    /\ nextId = 2
    /\ phase = "mounted"
    /\ PageMounted
    /\ NoClassifier

\* the render of one row of the attendance table: getStatus on the record
RenderStatus ==
    /\ phase = "loaded"
    /\ \E i \in DOMAIN records :
          /\ session' = [loginTime |-> records[i].loginTime,
                         logoutTime |-> records[i].logoutTime]
          /\ status' = getStatus(records[i].loginTime, records[i].logoutTime)
    /\ phase' = "classified"
    /\ UNCHANGED loads
    /\ UNCHANGED <<now, db, records, currentSessionId, error, isLoading, handlers, nextId,
                   complianceWarnings>>
    /\ UNCHANGED rendered

NextOvernight ==
    \/ \E l \in 1 .. MaxLoads : LoadRecordsQueryExecuted(l)
    \/ \E l \in 1 .. MaxLoads : LoadRecordsFetched(l)
    \/ \E l \in 1 .. MaxLoads : LoadRecords(l)
    \/ \E l \in 1 .. MaxLoads : LoadRecordsError(l)
    \/ RenderStatus

SpecOvernight == InitOvernight /\ [][NextOvernight]_vars

\* the stored row of the rendered session was open and logged in on a day
\* before the day of asOf: the load step closed it
AutoClosed ==
    /\ Classified
    /\ \E r \in UserRows :
          /\ r.login_time = session.loginTime
          /\ r.logout_time = NULL
          /\ r.login_time.day < now.day

\* C19: an auto-closed session has a logoutTime not earlier than its loginTime
\* and its classification carries the exit tag Overtime and no other exit tag,
\* whatever its login time of day; a 09:00 login left open from the previous day
\* classifies as [Early Entry, Overtime]
C19_AutoClosedOvertime ==
    AutoClosed =>
        /\ session.logoutTime # NULL
        /\ ~Before(session.logoutTime, session.loginTime)
        /\ {status[i] : i \in TagsIn(status, ExitTags)} = {"Overtime"}
        /\ session.loginTime = Date(now.day - 1, TimeOfDay(9, 0, 0, 0))
              => status = <<"Early Entry", "Overtime">>

C19_Witness ==
    /\ AutoClosed
    /\ now = Date(Today, TimeOfDay(9, 0, 0, 0))
    /\ session.loginTime = Date(Today - 1, TimeOfDay(9, 0, 0, 0))
    /\ session.logoutTime = Date(Today - 1, TimeOfDay(23, 59, 59, 999))
    /\ status = <<"Early Entry", "Overtime">>

-----------------------------------------------------------------------------
(* Specification of the compliance check: checkAttendanceCompliance applied *)
(* to the records of one employee                                           *)

\* the largest number of records handed to the compliance check
MaxSessions == 4

\* the instants at which the check runs
ComplianceInstants == {Date(Today, TimeOfDay(9, 0, 0, 0)), Date(Today, TimeOfDay(18, 0, 0, 0))}

\* loginTime and logoutTime of the records: late, on time, leaving early, left
\* open today or on a previous day, around the start of the day seven days
\* back, and inside the last 7 x 24 hours or not
ComplianceSessions ==
    LET S(d, li, lo) == [loginTime |-> Date(d, li),
                         logoutTime |-> IF lo = 0 - 1 THEN NULL ELSE Date(d, lo)]
        open == 0 - 1
    IN  {S(Today, TimeOfDay(10, 30, 0, 0), TimeOfDay(19, 10, 0, 0)),
         S(Today, TimeOfDay(10, 30, 0, 0), open),
         S(Today - 1, TimeOfDay(10, 30, 0, 0), open),
         S(Today - 1, TimeOfDay(9, 0, 0, 0), open),
         S(Today - 2, TimeOfDay(9, 45, 0, 0), TimeOfDay(19, 10, 0, 0)),
         S(Today - 3, TimeOfDay(10, 30, 0, 0), TimeOfDay(17, 0, 0, 0)),
         S(Today - 3, TimeOfDay(10, 30, 0, 0), TimeOfDay(19, 10, 0, 0)),
         S(Today - 3, TimeOfDay(9, 45, 0, 0), TimeOfDay(17, 0, 0, 0)),
         S(Today - 7, TimeOfDay(10, 30, 0, 0), TimeOfDay(19, 10, 0, 0)),
         S(Today - 7, TimeOfDay(0, 0, 0, 0), TimeOfDay(17, 0, 0, 0)),
         S(Today - 8, TimeOfDay(23, 59, 59, 999), TimeOfDay(23, 59, 59, 999)),
         S(Today - 8, TimeOfDay(10, 30, 0, 0), TimeOfDay(17, 0, 0, 0))}

\* the record lists of n records, newest login first as the page keeps them
RecordLists(n) ==
    {[i \in 1 .. n |-> [id |-> i, email |-> UserEmail,
                        loginTime |-> f[i].loginTime, logoutTime |-> f[i].logoutTime]] :
        f \in {g \in [1 .. n -> ComplianceSessions] :
                  \A i \in 1 .. n - 1 : ~Before(g[i].loginTime, g[i + 1].loginTime)}}

InitCompliance ==
    /\ now \in ComplianceInstants
    /\ records \in UNION {RecordLists(n) : n \in 0 .. MaxSessions}
    /\ db = {}
    /\ nextId = 1
    /\ currentSessionId = NoSessionId
    /\ error = NoError
    /\ isLoading = FALSE
    /\ complianceWarnings = <<>>
    /\ handlers = [h \in 1 .. MaxHandlers |-> Idle]
    /\ loads = NoLoads
    /\ rendered = FirstRendering
    /\ phase = "records"
    /\ NoClassifier

\* one call of checkAttendanceCompliance on the records
RunCompliance ==
    /\ phase = "records"
    /\ complianceWarnings' = checkAttendanceCompliance(records, UserName)
    /\ phase' = "checked"
    /\ UNCHANGED loads
    /\ UNCHANGED <<now, db, records, currentSessionId, error, isLoading, handlers, nextId,
                   session, status>>
    /\ Rerender(TRUE)

NextCompliance == RunCompliance \/ DismissWarnings

SpecCompliance == InitCompliance /\ [][NextCompliance]_vars

-----------------------------------------------------------------------------
(* Properties of the compliance check *)

Checked == phase = "checked"

\* the records left open on a day before the day of asOf
UnclosedOld ==
    {i \in DOMAIN records :
        records[i].logoutTime = NULL /\ records[i].loginTime.day < now.day}

\* loginTime at or after 00:00 of the calendar day seven days before the day of asOf
InWeek(i) == ~Before(records[i].loginTime, Date(now.day - 7, 0))

\* loginTime within the 7 x 24 hours that end at asOf
InLast7x24(i) ==
    /\ ~Before(records[i].loginTime, Date(now.day - 7, now.ms))
    /\ ~Before(now, records[i].loginTime)

\* the classification of record i includes the tag
Tagged(i, tag) == Includes(getStatus(records[i].loginTime, records[i].logoutTime), tag)

LateInWeek == {i \in DOMAIN records : InWeek(i) /\ Tagged(i, "Late")}

EarlyLeaveInWeek == {i \in DOMAIN records : InWeek(i) /\ Tagged(i, "Early Leave")}

Warnings == {complianceWarnings[k] : k \in DOMAIN complianceWarnings}

\* the message of warning w states the issue text with the number n
States(w, text, n) ==
    \E k \in DOMAIN w.message.issues :
        w.message.issues[k].text = text /\ w.message.issues[k].count = n

\* the message of warning w mentions the issue text
Mentions(w, text) == \E k \in DOMAIN w.message.issues : w.message.issues[k].text = text

\* the condition of a warning kind qualifies for the records
Qualifies(kind) ==
    CASE kind = "unclosed_session" -> UnclosedOld # {}
      [] kind = "excessive_late" -> Cardinality(LateInWeek) >= 3
      [] kind = "excessive_early_leave" -> Cardinality(EarlyLeaveInWeek) >= 3
      [] OTHER -> FALSE

\* C13: with at least 3 Late sessions in the window the output has a warning of
\* kind excessive_late whose message embeds the count; when lateness is the only
\* qualifying condition the output is exactly one warning, of kind excessive_late
C13_Lateness ==
    Checked =>
        LET n == Cardinality(LateInWeek)
        IN  /\ n >= 3 =>
                  \E w \in Warnings :
                      w.type = "excessive_late" /\ States(w, "late times this week", n)
            /\ (n >= 3 /\ Cardinality(EarlyLeaveInWeek) < 3 /\ UnclosedOld = {}) =>
                  /\ Len(complianceWarnings) = 1
                  /\ complianceWarnings[1].type = "excessive_late"

C13_Witness ==
    /\ Checked
    /\ Cardinality(LateInWeek) = 3
    /\ EarlyLeaveInWeek = {}
    /\ UnclosedOld = {}
    /\ complianceWarnings =
          <<[type |-> "excessive_late",
             message |-> [userName |-> UserName,
                          issues |-> <<[count |-> 3, text |-> "late times this week"]>>]]>>

\* C14: with at least 3 Early Leave sessions in the window the output has a
\* warning of kind excessive_early_leave whose message embeds the count
C14_EarlyLeave ==
    Checked =>
        LET n == Cardinality(EarlyLeaveInWeek)
        IN  n >= 3 =>
                \E w \in Warnings :
                    /\ w.type = "excessive_early_leave"
                    /\ States(w, "left early times this week", n)

\* C15: with at least one record left open on a day before the day of asOf the
\* output has a warning of kind unclosed_session that states how many there are
C15_Unclosed ==
    Checked =>
        (UnclosedOld # {} =>
            \E w \in Warnings :
                /\ w.type = "unclosed_session"
                /\ States(w, "unclosed session(s)", Cardinality(UnclosedOld)))

\* C16: no warning when no condition qualifies; the kind of every warning is one
\* whose own condition qualifies; every qualifying condition is in the output
C16_Fidelity ==
    Checked =>
        /\ (UnclosedOld = {} /\ Cardinality(LateInWeek) < 3 /\ Cardinality(EarlyLeaveInWeek) < 3)
              => complianceWarnings = <<>>
        /\ \A w \in Warnings : Qualifies(w.type)
        /\ UnclosedOld # {} => \E w \in Warnings : Mentions(w, "unclosed session(s)")
        /\ Cardinality(LateInWeek) >= 3 => \E w \in Warnings : Mentions(w, "late times this week")
        /\ Cardinality(EarlyLeaveInWeek) >= 3 =>
              \E w \in Warnings : Mentions(w, "left early times this week")

\* the output reports the Late total as the size of late and the Early Leave
\* total as the size of early: an issue is there iff its total reaches 3, and it
\* embeds the total
TotalsAre(late, early) ==
    /\ Cardinality(late) >= 3 <=> \E w \in Warnings : Mentions(w, "late times this week")
    /\ \A w \in Warnings :
          Mentions(w, "late times this week")
              => States(w, "late times this week", Cardinality(late))
    /\ Cardinality(early) >= 3 <=> \E w \in Warnings : Mentions(w, "left early times this week")
    /\ \A w \in Warnings :
          Mentions(w, "left early times this week")
              => States(w, "left early times this week", Cardinality(early))

\* C17 as claimed: the sessions counted are exactly those that logged in within
\* the 7 x 24 hours ending at asOf
C17_WindowLast7x24 ==
    Checked =>
        TotalsAre({i \in DOMAIN records : InLast7x24(i) /\ Tagged(i, "Late")},
                  {i \in DOMAIN records : InLast7x24(i) /\ Tagged(i, "Early Leave")})

\* C17 amended: the sessions counted are exactly those that logged in at or after
\* 00:00 of the calendar day seven days before the day of asOf, with no upper limit
C17_WindowFromStartOfDay ==
    Checked => TotalsAre(LateInWeek, EarlyLeaveInWeek)

C17_Witness ==
    /\ Checked
    /\ now = Date(Today, TimeOfDay(18, 0, 0, 0))
    /\ Cardinality(EarlyLeaveInWeek) = 3
    /\ \E i \in EarlyLeaveInWeek : records[i].loginTime = Date(Today - 7, 0)
    /\ \E i \in DOMAIN records :
          records[i].loginTime = Date(Today - 8, TimeOfDay(23, 59, 59, 999))
    /\ \E w \in Warnings : States(w, "left early times this week", 3)

-----------------------------------------------------------------------------
(* Specification of the page: runs of loadRecords, reloads, clock-in,    *)
(* clock-out, the error banner and the exports, at one instant of a day; *)
(* no account is removed meanwhile                                       *)

\* the instants the wall clock passes through
PageClock ==
    <<Date(Today, TimeOfDay(9, 20, 0, 0)),
      Date(Today, TimeOfDay(19, 10, 0, 0)),
      Date(Today + 1, TimeOfDay(9, 45, 0, 0))>>

\* the stored table when the page is first opened: empty, or one row of
\* yesterday (left open, or closed)
InitialTables ==
    {{}}
    \cup {{[id |-> 1, email |-> UserEmail,
            login_time |-> Date(Today - 1, TimeOfDay(9, 0, 0, 0)), logout_time |-> lo]} :
            lo \in {NULL, Date(Today - 1, TimeOfDay(19, 15, 0, 0))}}

InitPage ==
    /\ now = PageClock[1]
    /\ db \in InitialTables
    /\ nextId = Cardinality(db) + 1
    /\ phase = "mounted"
    /\ PageMounted
    /\ NoClassifier

\* time passes
Tick ==
    /\ \E i \in 1 .. Len(PageClock) - 1 : now = PageClock[i] /\ now' = PageClock[i + 1]
    /\ UNCHANGED <<db, records, currentSessionId, error, isLoading, handlers, nextId,
                   complianceWarnings, session, status, phase, loads>>
    /\ UNCHANGED rendered

\* the rows the delete of clearAllData removes: every row for an admin, the rows of the
\* signed-in employee otherwise
ClearedRows(rows, role) ==
    IF role = "admin" THEN rows ELSE {r \in rows : r.email = UserEmail}

\* the requests that change the store, on their way to it
WritesInFlight == {"ci_update", "ci_insert", "co_update", "clear_delete"}

\* a request that outlives its page: the page that sent it is gone
Orphaned(pc) ==
    CASE pc = "ci_update" -> "orphan_ci_update"
      [] pc = "ci_insert" -> "orphan_ci_insert"
      [] pc = "co_update" -> "orphan_co_update"
      [] pc = "clear_delete" -> "orphan_clear_delete"

OrphanedWrites == {Orphaned(pc) : pc \in WritesInFlight}

\* the browser reloads the page: a fresh mount. The handlers and the runs of
\* loadRecords of the old page never continue; a write that is on its way to
\* the store stays on its way
Reload ==
    /\ records' = <<>>
    /\ currentSessionId' = NoSessionId
    /\ error' = NoError
    /\ isLoading' = TRUE
    /\ complianceWarnings' = <<>>
    /\ phase' = "mounted"
    /\ loads' = MountLoads
    /\ handlers' = [h \in DOMAIN handlers |->
                       IF handlers[h].pc \in WritesInFlight
                       THEN [handlers[h] EXCEPT !.pc = Orphaned(handlers[h].pc)]
                       ELSE IF handlers[h].pc \in OrphanedWrites
                       THEN handlers[h]
                       ELSE Idle]
    /\ UNCHANGED <<now, db, nextId, session, status>>
    /\ rendered' = FirstRendering

\* the store executes a write whose page is gone; nobody receives the answer
OrphanedWriteExecuted(h) ==
    /\ handlers[h].pc \in OrphanedWrites
    /\ handlers[h].pc = "orphan_ci_insert" => nextId <= MaxIds
    /\ \E role \in {"admin", "employee"} :
       db' = CASE handlers[h].pc = "orphan_ci_update" ->
                     {IF r.id = handlers[h].id THEN [r EXCEPT !.logout_time = NULL] ELSE r :
                         r \in db}
               [] handlers[h].pc = "orphan_co_update" ->
                     {IF r.id = handlers[h].id THEN [r EXCEPT !.logout_time = handlers[h].at]
                                               ELSE r : r \in db}
               [] handlers[h].pc = "orphan_ci_insert" ->
                     db \cup {[id |-> nextId, email |-> UserEmail,
                               login_time |-> handlers[h].at, logout_time |-> NULL]}
               [] handlers[h].pc = "orphan_clear_delete" ->
                     db \ ClearedRows(db, role)
    /\ nextId' = IF handlers[h].pc = "orphan_ci_insert" THEN nextId + 1 ELSE nextId
    /\ handlers' = [handlers EXCEPT ![h] = Idle]
    /\ UNCHANGED <<records, currentSessionId, error, isLoading, complianceWarnings>>
    /\ HandlerFrame
    /\ UNCHANGED rendered

\* a write whose page is gone never reaches the store: the browser has
\* cancelled the request with the page
OrphanedWriteCancelled(h) ==
    /\ handlers[h].pc \in OrphanedWrites
    /\ handlers' = [handlers EXCEPT ![h] = Idle]
    /\ UNCHANGED <<db, records, currentSessionId, error, isLoading, nextId, complianceWarnings>>
    /\ HandlerFrame
    /\ UNCHANGED rendered

\* the dismiss button of the error banner: setError(null)
DismissError ==
    /\ isLoading = FALSE
    /\ error # NoError
    /\ error' = NoError
    /\ UNCHANGED <<now, db, records, currentSessionId, isLoading, handlers, nextId,
                   complianceWarnings, session, status, phase, loads>>
    /\ Rerender(FALSE)

\* removeCustomAccounts, run by an administrator in a session of their own:
\* the employees of the given emails are deleted, and with each of them, by
\* ON DELETE CASCADE of attendance_logs.email, every row of that subject. No
\* handler of the employee's page takes part and the page is told nothing. The
\* table of employees is not part of the state: an account may be added again
\* (addCustomAccount), and a request for a subject without account is a request
\* that fails
removeCustomAccounts ==
    /\ \E emails \in (SUBSET {UserEmail, OtherEmail}) \ {{}} :
          db' = {r \in db : r.email \notin emails}
    /\ UNCHANGED <<now, records, currentSessionId, error, isLoading, handlers, nextId,
                   complianceWarnings, session, status, phase, loads>>
    /\ UNCHANGED rendered

\* useState<RangeFilter>: the range of the records the page lists
RangeFilters == {"last7", "month", "last3"}

\* the Select of the range: setRangeFilter(value), and Home renders with it
setRangeFilter ==
    /\ isLoading = FALSE
    /\ \E value \in RangeFilters \ {rendered.rangeFilter} :
          rendered' = [rangeFilter |-> value, at |-> now]
    /\ UNCHANGED <<now, db, records, currentSessionId, error, isLoading, handlers, nextId,
                   complianceWarnings, session, status, phase, loads>>

\* displayRecords.filter(...): the records of the range, as of the rendering
FilteredRecords(displayRecords, rangeFilter, asOf) ==
    SelectSeq(displayRecords, LAMBDA record :
        ~Before(record.loginTime,
                IF rangeFilter = "last7" THEN daysAgo(7, asOf)
                ELSE IF rangeFilter = "month" THEN startOfMonth(asOf)
                ELSE daysAgo(90, asOf)))

\* an export: nothing to export, or the file is built (no state of the page
\* changes), or building it throws and the catch block sets its message
Export(exported, failureMessage) ==
    /\ isLoading = FALSE
    /\ IF Len(exported) = 0
       THEN error' = "No records to export"
       ELSE error' \in {error, failureMessage}
    /\ UNCHANGED <<now, db, records, currentSessionId, isLoading, handlers, nextId,
                   complianceWarnings, session, status, phase, loads>>
    /\ Rerender(FALSE)

\* filteredRecords of the last rendering: the records (every change of them
\* renders) of the range selected, as of the instant of that rendering, however
\* far the clock has moved since
RenderedRecords == FilteredRecords(SortByLoginDesc(records), rendered.rangeFilter, rendered.at)

exportToCSV == Export(RenderedRecords, "Failed to export attendance records.")

exportToPDF == Export(RenderedRecords, "Failed to export PDF.")

\* exportToExcel looks at displayRecords, all the records, before it exports
exportToExcel == Export(records, "Failed to export Excel.")

NextPage ==
    \/ \E l \in 1 .. MaxLoads : LoadRecordsStart(l)
    \/ \E l \in 1 .. MaxLoads : LoadRecordsQueryExecuted(l)
    \/ \E l \in 1 .. MaxLoads : LoadRecordsFetched(l)
    \/ \E l \in 1 .. MaxLoads : LoadRecords(l)
    \/ \E l \in 1 .. MaxLoads : LoadRecordsError(l)
    \/ Reload
    \/ DismissError
    \/ exportToCSV
    \/ exportToPDF
    \/ exportToExcel
    \/ \E h \in 1 .. MaxHandlers : ClockInStart(h)
    \/ \E h \in 1 .. MaxHandlers : ClockInSelectExecuted(h)
    \/ \E h \in 1 .. MaxHandlers : ClockInFetched(h)
    \/ \E h \in 1 .. MaxHandlers : ClockInUpdateExecuted(h)
    \/ \E h \in 1 .. MaxHandlers : ClockInUpdated(h)
    \/ \E h \in 1 .. MaxHandlers : ClockInInsertExecuted(h)
    \/ \E h \in 1 .. MaxHandlers : ClockInInserted(h)
    \/ \E h \in 1 .. MaxHandlers : ClockInFailed(h)
    \/ \E h \in 1 .. MaxHandlers : ClockOutStart(h)
    \/ \E h \in 1 .. MaxHandlers : ClockOutUpdateExecuted(h)
    \/ \E h \in 1 .. MaxHandlers : ClockOutUpdated(h)
    \/ \E h \in 1 .. MaxHandlers : ClockOutFailed(h)
    \/ \E h \in 1 .. MaxHandlers : OrphanedWriteExecuted(h)
    \/ \E h \in 1 .. MaxHandlers : OrphanedWriteCancelled(h)

SpecPage == InitPage /\ [][NextPage]_vars

-----------------------------------------------------------------------------
(* Specification of the page under a wall clock that is set back (new      *)
(* Date() reads the system clock): runs of loadRecords, reloads, clock-in  *)
(* and clock-out within one day, beside an administrator who removes       *)
(* accounts                                                                *)

\* the values the wall clock takes
ClockReadings == {Date(Today, TimeOfDay(9, 20, 0, 0)), Date(Today, TimeOfDay(19, 10, 0, 0))}

\* the stored table when the page is first opened: the store has given ids
\* before and has one left; the table is empty, or holds one row: of today and
\* open since 19:10, of today 08:00 and closed at 19:10, or of yesterday and closed
ClockTables ==
    {{}}
    \cup {{[id |-> MaxIds - 1, email |-> UserEmail,
            login_time |-> Date(Today, TimeOfDay(19, 10, 0, 0)), logout_time |-> NULL]},
          {[id |-> MaxIds - 1, email |-> UserEmail,
            login_time |-> Date(Today, TimeOfDay(8, 0, 0, 0)),
            logout_time |-> Date(Today, TimeOfDay(19, 10, 0, 0))]},
          {[id |-> MaxIds - 1, email |-> UserEmail,
            login_time |-> Date(Today - 1, TimeOfDay(9, 0, 0, 0)),
            logout_time |-> Date(Today - 1, TimeOfDay(19, 15, 0, 0))]}}

InitClock ==
    /\ now \in ClockReadings
    /\ db \in ClockTables
    /\ nextId = MaxIds
    /\ phase = "mounted"
    /\ PageMounted
    /\ NoClassifier

\* the system clock is set back to an earlier reading
SetClock ==
    /\ now' \in {t \in ClockReadings : Before(t, now)}
    /\ UNCHANGED <<db, records, currentSessionId, error, isLoading, handlers, nextId,
                   complianceWarnings, session, status, phase, loads>>
    /\ UNCHANGED rendered

NextClock ==
    \/ \E l \in 1 .. MaxLoads : LoadRecordsStart(l)
    \/ \E l \in 1 .. MaxLoads : LoadRecordsQueryExecuted(l)
    \/ \E l \in 1 .. MaxLoads : LoadRecordsFetched(l)
    \/ \E l \in 1 .. MaxLoads : LoadRecords(l)
    \/ \E l \in 1 .. MaxLoads : LoadRecordsError(l)
    \/ Reload
    \/ SetClock
    \/ removeCustomAccounts
    \/ DismissError
    \/ \E h \in 1 .. MaxHandlers : ClockInStart(h)
    \/ \E h \in 1 .. MaxHandlers : ClockInSelectExecuted(h)
    \/ \E h \in 1 .. MaxHandlers : ClockInFetched(h)
    \/ \E h \in 1 .. MaxHandlers : ClockInUpdateExecuted(h)
    \/ \E h \in 1 .. MaxHandlers : ClockInUpdated(h)
    \/ \E h \in 1 .. MaxHandlers : ClockInInsertExecuted(h)
    \/ \E h \in 1 .. MaxHandlers : ClockInInserted(h)
    \/ \E h \in 1 .. MaxHandlers : ClockInFailed(h)
    \/ \E h \in 1 .. MaxHandlers : ClockOutStart(h)
    \/ \E h \in 1 .. MaxHandlers : ClockOutUpdateExecuted(h)
    \/ \E h \in 1 .. MaxHandlers : ClockOutUpdated(h)
    \/ \E h \in 1 .. MaxHandlers : ClockOutFailed(h)
    \/ \E h \in 1 .. MaxHandlers : OrphanedWriteExecuted(h)
    \/ \E h \in 1 .. MaxHandlers : OrphanedWriteCancelled(h)

SpecClock == InitClock /\ [][NextClock]_vars

\* C21 as claimed: once a stored session has a logoutTime, no later step
\* changes or clears it
C21_LogoutWrittenOnce ==
    [][\A r \in db : \A r2 \in db' :
          (r2.id = r.id /\ r.logout_time # NULL) => r2.logout_time = r.logout_time]_vars

\* the store executes the write pc of a page that is gone
WriteOf(pc, h) == handlers[h].pc = pc /\ OrphanedWriteExecuted(h)

\* C21 amended: a session is created by one clock-in, which stores it without
\* logoutTime; its logoutTime is written by a clock-out of that session only,
\* and cleared only by a clock-in that resumes the session, on the day the
\* session logged in (the handler's `today`); the write of a clock-in or
\* clock-out may reach the store after its page is gone
C21_Lifecycle ==
    [][/\ \A r \in db : \A r2 \in db' :
             (r2.id = r.id /\ r2.logout_time # r.logout_time) =>
                 IF r2.logout_time = NULL
                 THEN \E h \in 1 .. MaxHandlers :
                         /\ handlers[h].id = r.id
                         /\ ClockInUpdateExecuted(h) \/ WriteOf("orphan_ci_update", h)
                         /\ r.login_time.day = handlers[h].at.day
                 ELSE \E h \in 1 .. MaxHandlers :
                         /\ handlers[h].id = r.id
                         /\ ClockOutUpdateExecuted(h) \/ WriteOf("orphan_co_update", h)
       /\ LET created == {r2 \in db' : \A r \in db : r.id # r2.id}
          IN  /\ Cardinality(created) <= 1
              /\ \A r2 \in created :
                    /\ r2.logout_time = NULL
                    /\ \E h \in 1 .. MaxHandlers :
                          \/ ClockInInsertExecuted(h)
                          \/ WriteOf("orphan_ci_insert", h)]_vars

\* a session closed at 19:10 that a clock-in of its day has resumed
C21_Witness ==
    \E r \in UserRows :
        /\ r.login_time = Date(Today, TimeOfDay(8, 0, 0, 0))
        /\ r.logout_time = NULL
        /\ currentSessionId = r.id

-----------------------------------------------------------------------------
(* Properties of the page *)

\* the stored open rows of the employee that logged in on calendar day d
OpenRowsOn(d) == {r \in UserRows : r.logout_time = NULL /\ r.login_time.day = d}

\* C3: after any interleaving of clock-in and clock-out the stored rows hold at
\* most one open session of the employee for any one day
C3_AtMostOneOpenRowPerDay ==
    \A d \in {PageClock[i].day : i \in DOMAIN PageClock} : Cardinality(OpenRowsOn(d)) <= 1

-----------------------------------------------------------------------------
(* Views of the records: the rows and summary cards of the employee page    *)
(* (calculateDuration, SectionCards) and the alerts of the admin audit page *)
(* (generateAttendanceAlerts)                                               *)

\* end.getTime() - start.getTime(), in milliseconds
Elapsed(start, end) == (end.day - start.day) * MsPerDay + (end.ms - start.ms)

\* a % b of JavaScript for b > 0: the remainder takes the sign of a
Remainder(a, b) == IF a >= 0 THEN a % b ELSE 0 - ((0 - a) % b)

\* the text `${hours}h ${minutes}m`, by its two numbers
HoursMinutes(ms) ==
    [hours |-> ms \div MsPerHour,
     minutes |-> Remainder(ms, MsPerHour) \div MsPerMinute]

\* a text the Duration column shows in place of hours and minutes
DurationText(text) == [text |-> text]

calculateDuration(start, end) ==
    IF end = NULL
    THEN DurationText("In Progress")
    ELSE LET diff == Elapsed(start, end)
         IN  IF diff < 0 THEN DurationText("Invalid") ELSE HoursMinutes(diff)

\* calculateDuration of the earlier page (src/pages/index.tsx): no branch for
\* a negative difference; Math.floor takes the hours down, and the minutes of
\* the remainder, which has the sign of the difference
IndexCalculateDuration(start, end) ==
    IF end = NULL
    THEN DurationText("In Progress")
    ELSE HoursMinutes(Elapsed(start, end))

\* items.reduce(...): the milliseconds of the closed records, inverted ones skipped
RECURSIVE calculateTotalHours(_)
calculateTotalHours(items) ==
    IF items = <<>>
    THEN 0
    ELSE LET record == items[Len(items)]
             total == calculateTotalHours(SubSeq(items, 1, Len(items) - 1))
         IN  IF record.logoutTime # NULL
             THEN LET diff == Elapsed(record.loginTime, record.logoutTime)
                  IN  IF diff < 0 THEN total ELSE total + diff
             ELSE total

\* the records calculateAverageHours averages over
ValidRecords(items) ==
    SelectSeq(items, LAMBDA record :
        /\ record.logoutTime # NULL
        /\ Elapsed(record.loginTime, record.logoutTime) >= 0)

\* totalMs / validRecords.length; formatHours, its only reader, uses the whole
\* milliseconds of the quotient and no more, and so the quotient is kept whole
calculateAverageHours(items) ==
    LET validRecords == ValidRecords(items)
    IN  IF Len(validRecords) = 0
        THEN 0
        ELSE calculateTotalHours(validRecords) \div Len(validRecords)

formatHours(ms) == HoursMinutes(ms)

countLateArrivals(items) ==
    Len(SelectSeq(items, LAMBDA record : getHours(record.loginTime) > 10))

\* records.filter(record.name === userName): the records that carry the display
\* name of the signed-in employee
UserRecords(items, userName) == SelectSeq(items, LAMBDA record : record.name = userName)

\* userRecords.filter(record.loginTime >= weekAgo)
WeekRecords(items, userName, asOf) ==
    SelectSeq(UserRecords(items, userName),
              LAMBDA record : ~Before(record.loginTime, daysAgo(7, asOf)))

\* userRecords.filter(record.loginTime >= thisMonth)
MonthRecords(items, userName, asOf) ==
    SelectSeq(UserRecords(items, userName),
              LAMBDA record : ~Before(record.loginTime, startOfMonth(asOf)))

\* the time since the login of the current session, "0h 0m" when there is no
\* current session, when it is not among the user's records, or while the
\* component's timer has not run yet (timerNow, its state `now`, is then NULL)
currentSessionDuration(items, sessionId, userName, timerNow) ==
    LET sessions == SelectSeq(UserRecords(items, userName),
                              LAMBDA record : record.id = sessionId)
    IN  IF sessionId # NoSessionId /\ sessions # <<>> /\ timerNow # NULL
        THEN formatHours(Elapsed(Head(sessions).loginTime, timerNow))
        ELSE formatHours(0)

\* the largest e with 2^e <= n, for n >= 1
RECURSIVE Log2Floor(_)
Log2Floor(n) == IF n < 2 THEN 0 ELSE 1 + Log2Floor(n \div 2)

\* the smallest k with n * 2^k >= 200, for n >= 1
RECURSIVE DoublingsTo200(_)
DoublingsTo200(n) == IF n >= 200 THEN 0 ELSE 1 + DoublingsTo200(2 * n)

\* 2^s modulo 200
RECURSIVE PowerOf2Mod200(_)
PowerOf2Mod200(s) == IF s = 0 THEN 1 ELSE (2 * PowerOf2Mod200(s - 1)) % 200

\* whether the double ((j / 200) * 100), j odd and below 200, is smaller than the
\* j / 2 it stands for. The quotient j / 200 is rounded to 53 bits and drops
\* `dropped` two-hundredths of its last place; the product with 100 is rounded
\* again, to a last place 2^places times as large, and falls below j / 2 when
\* the quotient was rounded down by more than half of that place
PercentBelowHalf(j) ==
    LET doublings == DoublingsTo200(j)
        places == (Log2Floor(j) - 1) + doublings
        dropped == (j * PowerOf2Mod200(52 + doublings)) % 200
        half == IF j = 1 THEN (2 ^ places) \div 4 ELSE (2 ^ places) \div 2
    IN  dropped < 100 /\ dropped \div 2 > half

\* Math.round(((length - late) / length) * 100), the arithmetic on doubles:
\* the nearest whole number, the larger of two equally near; a percentage
\* halfway between two whole numbers is the double PercentBelowHalf describes
punctualityPercent(length, late) ==
    IF length > 0
    THEN LET twice == 200 * (length - late)
             whole == twice \div (2 * length)
             rest == twice % (2 * length)
         IN  IF rest < length THEN whole
             ELSE IF rest > length THEN whole + 1
             ELSE IF PercentBelowHalf(twice \div length) THEN whole ELSE whole + 1
    ELSE 0

\* what SectionCards shows of the records
SectionCards(items, sessionId, userName, timerNow, asOf) ==
    LET monthRecords == MonthRecords(items, userName, asOf)
    IN  [currentSessionDuration |->
             currentSessionDuration(items, sessionId, userName, timerNow),
         weekHours |-> formatHours(calculateTotalHours(WeekRecords(items, userName, asOf))),
         monthDaysCompleted |->
             Len(SelectSeq(monthRecords, LAMBDA record : record.logoutTime # NULL)),
         averageMonthHours |-> formatHours(calculateAverageHours(monthRecords)),
         lateThisMonth |-> countLateArrivals(monthRecords),
         punctualityPercent |->
             punctualityPercent(Len(monthRecords), countLateArrivals(monthRecords))]

\* StatsCards of the earlier page (src/components/StatsCards.tsx): records.reduce(...),
\* the milliseconds of the closed records, each difference with the sign it has
RECURSIVE StatsCalculateTotalHours(_)
StatsCalculateTotalHours(items) ==
    IF items = <<>>
    THEN 0
    ELSE LET record == items[Len(items)]
             total == StatsCalculateTotalHours(SubSeq(items, 1, Len(items) - 1))
         IN  IF record.logoutTime # NULL
             THEN total + Elapsed(record.loginTime, record.logoutTime)
             ELSE total

\* formatHours(calculateAverageHours(items)) of StatsCards: totalMs /
\* completedRecords.length is a quotient of two whole numbers; Math.floor of its
\* hours, and of the minutes of its remainder, which has the sign of the total
StatsAverageHours(items) ==
    LET completedRecords == SelectSeq(items, LAMBDA record : record.logoutTime # NULL)
        length == Len(completedRecords)
        totalMs == StatsCalculateTotalHours(completedRecords)
    IN  IF length = 0
        THEN formatHours(0)
        ELSE [hours |-> totalMs \div (length * MsPerHour),
              minutes |-> Remainder(totalMs, length * MsPerHour) \div (length * MsPerMinute)]

\* the time from the login of the current session to the new Date() of the
\* rendering; '0h 0m' without a current session among the user's records
StatsCurrentSessionDuration(items, sessionId, userName, asOf) ==
    LET sessions == SelectSeq(UserRecords(items, userName),
                              LAMBDA record : record.id = sessionId)
    IN  IF sessionId # NoSessionId /\ sessions # <<>>
        THEN formatHours(Elapsed(Head(sessions).loginTime, asOf))
        ELSE formatHours(0)

\* what StatsCards shows of the records
StatsCards(items, sessionId, userName, asOf) ==
    LET weekRecords == WeekRecords(items, userName, asOf)
        monthRecords == MonthRecords(items, userName, asOf)
    IN  [currentSessionDuration |->
             StatsCurrentSessionDuration(items, sessionId, userName, asOf),
         weekHours |-> formatHours(StatsCalculateTotalHours(weekRecords)),
         weekDaysCompleted |->
             Len(SelectSeq(weekRecords, LAMBDA record : record.logoutTime # NULL)),
         monthDaysCompleted |->
             Len(SelectSeq(monthRecords, LAMBDA record : record.logoutTime # NULL)),
         averageMonthHours |-> StatsAverageHours(monthRecords),
         lateThisMonth |-> countLateArrivals(monthRecords),
         punctualityPercent |->
             punctualityPercent(Len(monthRecords), countLateArrivals(monthRecords))]

-----------------------------------------------------------------------------
(* generateAttendanceAlerts of the admin audit page. An alert is modelled by *)
(* its id (the record id and the suffix), attendanceId, employeeName,       *)
(* email, type, severity, date and the numbers its message embeds. The      *)
(* instants are local time; zone is the offset of local time from UTC in    *)
(* minutes, positive east of Greenwich.                                     *)

DEFAULT_START_HOUR == 10

DEFAULT_END_HOUR == 19

MIN_WORK_HOURS == 9

\* what generateAttendanceAlerts produces when toISOString throws
RangeError == [threw |-> "RangeError"]

\* loginTime.toISOString().split('T')[0]: the day of the instant in UTC
ISODate(t, zone) == t.day + ((t.ms - zone * MsPerMinute) \div MsPerDay)

\* toLocaleTimeString([], {hour: '2-digit', minute: '2-digit'}), by its two numbers
HourMinuteText(t) == [hour |-> getHours(t), minute |-> getMinutes(t)]

\* the smallest k with n * 2^k >= 20, for n >= 1
RECURSIVE HalvingsBelow20(_)
HalvingsBelow20(n) == IF n >= 20 THEN 0 ELSE 1 + HalvingsBelow20(2 * n)

\* 2^s modulo 20 for s >= 2
PowerOf2Mod20(s) == <<4, 8, 16, 12>>[((s - 2) % 4) + 1]

\* where the double nearest to n / 20 (n odd: a number of hours halfway between
\* two tenths) lies: the remainder, in twentieths of its last binary place, that
\* the rounding to 53 bits drops. 0: the double is n / 20; under 10: the double
\* is smaller than n / 20; over 10: it is larger
DroppedTwentieths(n) ==
    LET exponent == IF n >= 20 THEN Log2Floor(n \div 20) ELSE 0 - HalvingsBelow20(n)
    IN  ((n % 20) * PowerOf2Mod20(52 - exponent)) % 20

\* durationHours.toFixed(1), as the sign and the tenths of an hour of the text:
\* the tenth nearest to the double durationMs / 3600000, the larger of two that
\* are equally near; a negative number gives "-" and the text of its magnitude
toFixed1(durationMs) ==
    LET magnitude == IF durationMs >= 0 THEN durationMs ELSE 0 - durationMs
        twentieth == MsPerHour \div 20
        lower == magnitude \div (2 * twentieth)
        rest == magnitude % (2 * twentieth)
        tenths == IF rest < twentieth THEN lower
                  ELSE IF rest > twentieth THEN lower + 1
                  ELSE LET dropped == DroppedTwentieths(magnitude \div twentieth)
                       IN  IF dropped = 0 \/ dropped > 10 THEN lower + 1 ELSE lower
    IN  [negative |-> durationMs < 0, tenths |-> tenths]

\* the late-arrival check comparing the hour alone
LateArrival_ByHour(record, startHour, zone) ==
    IF getHours(record.loginTime) > startHour
    THEN <<[id |-> <<record.id, "late">>, attendanceId |-> record.id,
            employeeName |-> record.name, email |-> record.email,
            type |-> "LATE_ARRIVAL", message |-> HourMinuteText(record.loginTime),
            date |-> ISODate(record.loginTime, zone), severity |-> "medium"]>>
    ELSE <<>>

LateArrival(record, startHour, zone) ==
    IF \/ getHours(record.loginTime) > startHour
       \/ (getHours(record.loginTime) = startHour /\ getMinutes(record.loginTime) > 0)
    THEN <<[id |-> <<record.id, "late">>, attendanceId |-> record.id,
            employeeName |-> record.name, email |-> record.email,
            type |-> "LATE_ARRIVAL", message |-> HourMinuteText(record.loginTime),
            date |-> ISODate(record.loginTime, zone), severity |-> "medium"]>>
    ELSE <<>>

EarlyDeparture(record, endHour, zone) ==
    IF getHours(record.logoutTime) < endHour
    THEN <<[id |-> <<record.id, "early">>, attendanceId |-> record.id,
            employeeName |-> record.name, email |-> record.email,
            type |-> "EARLY_DEPARTURE", message |-> HourMinuteText(record.logoutTime),
            date |-> ISODate(record.loginTime, zone), severity |-> "medium"]>>
    ELSE <<>>

\* durationHours < MIN_WORK_HOURS, both sides in milliseconds
Undertime(record, zone) ==
    LET durationMs == Elapsed(record.loginTime, record.logoutTime)
    IN  IF durationMs < MIN_WORK_HOURS * MsPerHour
        THEN <<[id |-> <<record.id, "undertime">>, attendanceId |-> record.id,
                employeeName |-> record.name, email |-> record.email, type |-> "UNDERTIME",
                message |-> [hours |-> toFixed1(durationMs), lessThan |-> MIN_WORK_HOURS],
                date |-> ISODate(record.loginTime, zone), severity |-> "high"]>>
        ELSE <<>>

\* the body of records.forEach for one record
AlertsOfRecord(record, startHour, endHour, zone) ==
    LateArrival(record, startHour, zone)
        \o (IF record.logoutTime # NULL
            THEN EarlyDeparture(record, endHour, zone) \o Undertime(record, zone)
            ELSE <<>>)

RECURSIVE AlertsOfRecords(_, _, _, _)
AlertsOfRecords(items, startHour, endHour, zone) ==
    IF items = <<>>
    THEN <<>>
    ELSE AlertsOfRecord(Head(items), startHour, endHour, zone)
             \o AlertsOfRecords(Tail(items), startHour, endHour, zone)

\* generateAttendanceAlerts in a process whose local time is zone minutes ahead
\* of UTC
generateAttendanceAlerts(items, startHour, endHour, zone) ==
    IF \E i \in DOMAIN items : items[i].loginTime = InvalidDate
    THEN RangeError
    ELSE AlertsOfRecords(items, startHour, endHour, zone)

-----------------------------------------------------------------------------
(* Specification of the views of one set of sessions: the rows and the     *)
(* summary cards of the employee's page (the current one, and the earlier   *)
(* src/pages/index.tsx), which render the records the page holds, and      *)
(* fetchLogs of the admin audit page, which fetches the rows from the store *)
(* and computes the alerts on its own batch                                 *)

\* the largest number of records rendered
MaxViewRecords == 2

\* the instants at which the views are rendered
ViewInstants == {Date(Today, TimeOfDay(9, 0, 0, 0)), Date(Today, TimeOfDay(18, 0, 0, 0))}

\* the display name of a colleague, and the name loadRecords gives a record
\* whose email is not in the employee directory
OtherName == "other name"

UnknownEmployee == "Unknown Employee"

\* the offsets of local time from UTC, in minutes, of the processes that render:
\* UTC-5, UTC and UTC+5:30
ZoneOffsets == {0 - 300, 0, 330}

\* the sessions rendered: logins around 10:00, logouts around 19:00, durations
\* around nine hours and halfway between two tenths of an hour, open, overnight,
\* with logoutTime before loginTime, of this week, of this month before the
\* week, of last month, of a colleague, of a colleague with the user's display
\* name, and of the user under the name of an unknown employee
ViewSessions ==
    LET S(e, n, d, li, d2, lo) == [email |-> e, name |-> n, loginTime |-> Date(d, li),
                                   logoutTime |-> IF lo = 0 - 1 THEN NULL ELSE Date(d2, lo)]
        open == 0 - 1
    IN  {S(UserEmail, UserName, Today, TimeOfDay(10, 5, 0, 0), Today, TimeOfDay(19, 10, 0, 0)),
         S(UserEmail, UserName, Today, TimeOfDay(10, 0, 30, 0), Today, TimeOfDay(18, 59, 0, 0)),
         S(UserEmail, UserName, Today, TimeOfDay(9, 59, 59, 999), Today, TimeOfDay(19, 0, 0, 0)),
         S(UserEmail, UserName, Today, TimeOfDay(11, 0, 0, 0), Today, open),
         S(UserEmail, UserName, Today, TimeOfDay(0, 0, 0, 0), Today, TimeOfDay(8, 57, 0, 0)),
         S(UserEmail, UserName, Today - 1, TimeOfDay(9, 0, 0, 0), Today - 1, TimeOfDay(18, 0, 0, 0)),
         S(UserEmail, UserName, Today - 1, TimeOfDay(10, 0, 0, 0), Today - 1, TimeOfDay(19, 0, 0, 0)),
         S(UserEmail, UserName, Today - 1, TimeOfDay(19, 10, 0, 0), Today - 1, TimeOfDay(8, 0, 0, 0)),
         S(UserEmail, UserName, Today - 1, TimeOfDay(9, 9, 0, 0), Today - 1, TimeOfDay(9, 0, 0, 0)),
         S(UserEmail, UserName, Today - 1, TimeOfDay(9, 1, 0, 0), Today - 1, TimeOfDay(9, 0, 0, 0)),
         S(UserEmail, UserName, Today - 2, TimeOfDay(20, 0, 0, 0), Today - 1, TimeOfDay(2, 0, 0, 0)),
         S(UserEmail, UserName, Today - 2, TimeOfDay(9, 0, 0, 0), Today - 2, TimeOfDay(9, 15, 0, 0)),
         S(UserEmail, UserName, Today - 3, TimeOfDay(9, 0, 0, 0), Today - 4, TimeOfDay(23, 30, 0, 0)),
         S(UserEmail, UserName, Today - 8, TimeOfDay(9, 45, 0, 0), Today - 8, TimeOfDay(17, 0, 0, 0)),
         S(UserEmail, UserName, Today - 11, TimeOfDay(10, 30, 0, 0), Today - 11, TimeOfDay(19, 10, 0, 0)),
         S(OtherEmail, OtherName, Today, TimeOfDay(10, 30, 0, 0), Today, TimeOfDay(17, 0, 0, 0)),
         S(OtherEmail, UserName, Today, TimeOfDay(11, 30, 0, 0), Today, TimeOfDay(17, 30, 0, 0)),
         S(UserEmail, UnknownEmployee, Today, TimeOfDay(11, 45, 0, 0), Today, TimeOfDay(19, 30, 0, 0))}

\* the record lists of n records, newest login first
ViewLists(n) ==
    {[i \in 1 .. n |-> [id |-> i, name |-> f[i].name, email |-> f[i].email,
                        loginTime |-> f[i].loginTime, logoutTime |-> f[i].logoutTime]] :
        f \in {g \in [1 .. n -> ViewSessions] :
                  \A i \in 1 .. n - 1 : ~Before(g[i].loginTime, g[i + 1].loginTime)}}

\* the readings of Date.now() the timer of SectionCards has stored: of the
\* evening before, of this morning, of half a minute ago, of this instant
TimerReadings ==
    {Date(Today - 1, TimeOfDay(17, 59, 30, 0)), Date(Today, TimeOfDay(9, 0, 0, 0)),
     Date(Today, TimeOfDay(17, 59, 30, 0)), Date(Today, TimeOfDay(18, 0, 0, 0))}

\* the current session of the page that renders the list: none, or an open record
OpenIds(items) == {items[i].id : i \in {j \in DOMAIN items : items[j].logoutTime = NULL}}

\* the row of the store behind a record of the page
RowOf(record) ==
    [id |-> record.id, email |-> record.email,
     login_time |-> record.loginTime, logout_time |-> record.logoutTime]

\* nothing is rendered and nothing fetched yet
NoViews == [page |-> NULL, audit |-> NULL]

\* the page holds a list of records and the store the rows of these sessions
InitViews ==
    /\ now \in ViewInstants
    /\ records \in UNION {ViewLists(n) : n \in 0 .. MaxViewRecords}
    /\ db = {RowOf(records[i]) : i \in DOMAIN records}
    /\ nextId = 1
    /\ currentSessionId \in {NoSessionId} \cup OpenIds(records)
    /\ error = NoError
    /\ isLoading = FALSE
    /\ complianceWarnings = <<>>
    /\ handlers = [h \in 1 .. MaxHandlers |-> Idle]
    /\ loads = NoLoads
    /\ rendered = FirstRendering
    /\ phase = "records"
    /\ session = [loginTime |-> NULL, logoutTime |-> NULL]
    /\ status = NoViews

ViewsFrame ==
    UNCHANGED <<now, db, records, currentSessionId, error, isLoading, handlers, nextId,
                complianceWarnings, session, loads>>

\* one rendering of the current page (Home of part_007) with a range selected:
\* the table lists filteredRecords, the records of the range, each row with its
\* Duration and Status; the summary cards are given all the records. The
\* cards use the state `now` of the component: nothing before its timer has
\* run, afterwards the last reading the timer stored, which a later rendering
\* and a later session reuse
RenderHome ==
    /\ status.page = NULL
    /\ \E rangeFilter \in RangeFilters,
          timerNow \in {NULL} \cup {t \in TimerReadings : ~Before(now, t)} :
          LET filteredRecords == FilteredRecords(SortByLoginDesc(records), rangeFilter, now)
          IN  /\ rendered' = [rangeFilter |-> rangeFilter, at |-> now]
              /\ status' = [status EXCEPT !.page =
                  [view |-> "home",
                   rows |-> filteredRecords,
                   durations |-> [i \in DOMAIN filteredRecords |->
                                     calculateDuration(filteredRecords[i].loginTime,
                                                       filteredRecords[i].logoutTime)],
                   tags |-> [i \in DOMAIN filteredRecords |->
                                getStatus(filteredRecords[i].loginTime,
                                          filteredRecords[i].logoutTime)],
                   cards |-> SectionCards(records, currentSessionId, UserName, timerNow, now)]]
    /\ phase' = "rendered"
    /\ ViewsFrame

\* one rendering of the earlier page (src/pages/index.tsx): the summary cards
\* of StatsCards, given all the records, and the table, which lists
\* displayRecords, every record, with the Duration of its own calculateDuration
RenderIndex ==
    /\ status.page = NULL
    /\ LET displayRecords == SortByLoginDesc(records)
       IN  status' = [status EXCEPT !.page =
               [view |-> "index",
                rows |-> displayRecords,
                durations |-> [i \in DOMAIN displayRecords |->
                                  IndexCalculateDuration(displayRecords[i].loginTime,
                                                         displayRecords[i].logoutTime)],
                tags |-> [i \in DOMAIN displayRecords |->
                             getStatus(displayRecords[i].loginTime,
                                       displayRecords[i].logoutTime)],
                cards |-> StatsCards(records, currentSessionId, UserName, now)]]
    /\ phase' = "rendered"
    /\ rendered' = [rendered EXCEPT !.at = now]
    /\ ViewsFrame

\* new Date('YYYY-MM-DD') of a date input: midnight UTC of that day, as the
\* local instant of a process zone minutes ahead of UTC
ParsedDate(day, zone) ==
    Date(day + ((zone * MsPerMinute) \div MsPerDay), (zone * MsPerMinute) % MsPerDay)

\* the largest number of runs of fetchLogs in one behaviour
MaxFetches == 2

\* the values a date input gives startDate and endDate: yesterday, today
DateInputs == {Today - 1, Today}

\* the values of selectedEmployeeEmail
EmployeeFilters == {"all", UserEmail}

\* the values of selectedStatus
StatusFilters == {"ALL", "UNDERTIME"}

\* the full_name of the employees in the store, which the query joins to each
\* row (employees ( full_name )): every employee has one (NOT NULL); it may be
\* the empty text
FullNames ==
    {[e \in {UserEmail, OtherEmail} |-> IF e = UserEmail THEN UserName ELSE OtherName],
     [e \in {UserEmail, OtherEmail} |-> IF e = UserEmail THEN "" ELSE OtherName]}

\* the answers of the query of fetchLogs: the rows that logged in from the
\* start of the local day of startDate to the end of the local day of endDate,
\* of one employee when one is selected, newest login first; the store returns
\* rows of equal login_time in any order
AuditQuery(rows, startDate, endDate, selectedEmployeeEmail, zone) ==
    LET matching ==
            {r \in rows :
                /\ ~Before(r.login_time, startOfDay(ParsedDate(startDate, zone)))
                /\ ~Before(endOfDay(ParsedDate(endDate, zone)), r.login_time)
                /\ selectedEmployeeEmail # "all" => r.email = selectedEmployeeEmail}
        n == Cardinality(matching)
    IN  {data \in [1 .. n -> matching] :
            /\ \A i, j \in 1 .. n : i # j => data[i] # data[j]
            /\ \A i \in 1 .. n - 1 : ~Before(data[i].login_time, data[i + 1].login_time)}

\* a row of the answer: the row of the store with the full_name joined to it
JoinedRow(row, fullName) ==
    [id |-> row.id, email |-> row.email, login_time |-> row.login_time,
     logout_time |-> row.logout_time, full_name |-> fullName[row.email]]

\* data.map(...) of fetchLogs: name is log.employees?.full_name || log.email
AuditRecord(log) ==
    [id |-> log.id,
     name |-> IF log.full_name # "" THEN log.full_name ELSE log.email,
     email |-> log.email,
     loginTime |-> log.login_time,
     logoutTime |-> IF log.logout_time # NULL THEN log.logout_time ELSE NULL]

\* allAlerts.filter(a => a.attendanceId === record.id).map(a => a.type)
RECURSIVE RecordAlerts(_, _)
RecordAlerts(allAlerts, id) ==
    IF allAlerts = <<>>
    THEN <<>>
    ELSE (IF Head(allAlerts).attendanceId = id THEN <<Head(allAlerts).type>> ELSE <<>>)
             \o RecordAlerts(Tail(allAlerts), id)

\* records.map(...) of fetchLogs: the record with the types of its alerts and
\* its duration, the milliseconds that the code divides by 1000 * 60 * 60
ExpandedRecord(record, allAlerts) ==
    [record |-> record,
     alerts |-> RecordAlerts(allAlerts, record.id),
     duration |-> IF record.logoutTime # NULL
                  THEN Elapsed(record.loginTime, record.logoutTime)
                  ELSE 0]

\* AttendanceAudit right after its first rendering, in a browser of the zone:
\* the useState values; batch and alerts are the records and allAlerts of the
\* last run of fetchLogs that reached setLogs, answered counts these runs, and
\* fetches are the runs of fetchLogs so far
AuditMounted(zone) ==
    [zone |-> zone,
     startDate |-> ISODate(daysAgo(30, now), zone),
     endDate |-> ISODate(now, zone),
     selectedEmployeeEmail |-> "all",
     selectedStatus |-> "ALL",
     logs |-> <<>>,
     loading |-> FALSE,
     error |-> NoError,
     batch |-> <<>>,
     alerts |-> <<>>,
     answered |-> 0,
     fetches |-> <<>>]

\* a run of fetchLogs that has returned
Returned == [pc |-> "returned"]

\* fetchLogs up to its await, called by the page with the filters it holds:
\* setLoading(true), setError(null), and the query built from startDate, endDate
\* and selectedEmployeeEmail is sent; the run keeps the selectedStatus of its
\* closure for the answer
FetchStarted(page) ==
    [page EXCEPT !.loading = TRUE,
                 !.error = NoError,
                 !.fetches = Append(@, [pc |-> "query",
                                        startDate |-> page.startDate,
                                        endDate |-> page.endDate,
                                        selectedEmployeeEmail |-> page.selectedEmployeeEmail,
                                        selectedStatus |-> page.selectedStatus,
                                        data |-> <<>>])]

\* what the audit page leaves alone
AuditFrame ==
    UNCHANGED <<now, db, records, currentSessionId, error, isLoading, handlers, nextId,
                complianceWarnings, session, phase, loads, rendered>>

\* the audit page is opened: the effect on [fetchLogs] runs fetchLogs
AuditMount ==
    /\ status.audit = NULL
    /\ \E zone \in ZoneOffsets :
          status' = [status EXCEPT !.audit = FetchStarted(AuditMounted(zone))]
    /\ AuditFrame

\* the page can run fetchLogs once more
CanFetch == status.audit # NULL /\ Len(status.audit.fetches) < MaxFetches

\* a filter is given another value: fetchLogs is a new function (useCallback on
\* the four filters) and the effect on [fetchLogs] runs it
setStartDate ==
    /\ CanFetch
    /\ \E value \in DateInputs \ {status.audit.startDate} :
          status' = [status EXCEPT !.audit =
                        FetchStarted([status.audit EXCEPT !.startDate = value])]
    /\ AuditFrame

setEndDate ==
    /\ CanFetch
    /\ \E value \in DateInputs \ {status.audit.endDate} :
          status' = [status EXCEPT !.audit =
                        FetchStarted([status.audit EXCEPT !.endDate = value])]
    /\ AuditFrame

setSelectedEmployeeEmail ==
    /\ CanFetch
    /\ \E value \in EmployeeFilters \ {status.audit.selectedEmployeeEmail} :
          status' = [status EXCEPT !.audit =
                        FetchStarted([status.audit EXCEPT !.selectedEmployeeEmail = value])]
    /\ AuditFrame

setSelectedStatus ==
    /\ CanFetch
    /\ \E value \in StatusFilters \ {status.audit.selectedStatus} :
          status' = [status EXCEPT !.audit =
                        FetchStarted([status.audit EXCEPT !.selectedStatus = value])]
    /\ AuditFrame

\* the Refresh button: onClick={fetchLogs}
Refresh ==
    /\ CanFetch
    /\ status' = [status EXCEPT !.audit = FetchStarted(status.audit)]
    /\ AuditFrame

\* the run f of fetchLogs is at the given position
FetchAt(f, pcs) ==
    /\ status.audit # NULL
    /\ f \in DOMAIN status.audit.fetches
    /\ status.audit.fetches[f].pc \in pcs

\* the store executes the query of the run: the answer it will deliver is the
\* rows as they are now
fetchLogsQueryExecuted(f) ==
    /\ FetchAt(f, {"query"})
    /\ LET run == status.audit.fetches[f]
       IN  \E fullName \in FullNames :
           \E data \in AuditQuery(db, run.startDate, run.endDate,
                                  run.selectedEmployeeEmail, status.audit.zone) :
              status' = [status EXCEPT !.audit.fetches[f] =
                            [run EXCEPT !.pc = "answered",
                                        !.data = [i \in DOMAIN data |->
                                                     JoinedRow(data[i], fullName)]]]
    /\ AuditFrame

\* the answer is delivered and fetchLogs runs to its end: the records of the
\* answer, the alerts of generateAttendanceAlerts on that batch with the default
\* hours, the records expanded and filtered by the selectedStatus of the run,
\* setLogs, setLoading(false)
fetchLogs(f) ==
    /\ FetchAt(f, {"answered"})
    /\ LET run == status.audit.fetches[f]
           batch == [i \in DOMAIN run.data |-> AuditRecord(run.data[i])]
           allAlerts == generateAttendanceAlerts(batch, DEFAULT_START_HOUR,
                                                 DEFAULT_END_HOUR, status.audit.zone)
           expandedRecords == [i \in DOMAIN batch |-> ExpandedRecord(batch[i], allAlerts)]
           filtered == IF run.selectedStatus # "ALL"
                       THEN SelectSeq(expandedRecords,
                                      LAMBDA r : Includes(r.alerts, run.selectedStatus))
                       ELSE expandedRecords
       IN  status' = [status EXCEPT !.audit =
               [@ EXCEPT !.logs = filtered,
                         !.batch = batch,
                         !.alerts = allAlerts,
                         !.answered = @ + 1,
                         !.loading = FALSE,
                         !.fetches[f] = Returned]]
    /\ AuditFrame

\* the query of the run is rejected or answers with an error: catch sets the
\* error, the logs stay what they were, setLoading(false)
fetchLogsFailed(f) ==
    /\ FetchAt(f, {"query", "answered"})
    /\ \E message \in {"store error message", "Failed to fetch logs"} :
          status' = [status EXCEPT !.audit =
              [@ EXCEPT !.error = message, !.loading = FALSE, !.fetches[f] = Returned]]
    /\ AuditFrame

\* the employee's pages render and the audit page, opened once, fetches,
\* beside an administrator who removes accounts
NextViews ==
    \/ RenderHome
    \/ RenderIndex
    \/ AuditMount
    \/ \E f \in 1 .. MaxFetches : fetchLogsQueryExecuted(f)
    \/ \E f \in 1 .. MaxFetches : fetchLogs(f)
    \/ \E f \in 1 .. MaxFetches : fetchLogsFailed(f)
    \/ removeCustomAccounts

SpecViews == InitViews /\ [][NextViews]_vars

-----------------------------------------------------------------------------
(* Specification of the admin audit page alone: it is opened, its filters   *)
(* are set and Refresh is clicked while earlier runs of fetchLogs are in    *)
(* flight, beside an administrator who removes accounts                    *)

InitAudit == InitViews /\ currentSessionId = NoSessionId

NextAudit ==
    \/ AuditMount
    \/ setStartDate
    \/ setEndDate
    \/ setSelectedEmployeeEmail
    \/ setSelectedStatus
    \/ Refresh
    \/ \E f \in 1 .. MaxFetches : fetchLogsQueryExecuted(f)
    \/ \E f \in 1 .. MaxFetches : fetchLogs(f)
    \/ \E f \in 1 .. MaxFetches : fetchLogsFailed(f)
    \/ removeCustomAccounts

SpecAudit == InitAudit /\ [][NextAudit]_vars

-----------------------------------------------------------------------------
(* Properties of the views *)

\* a page has rendered the records
PageRendered == phase = "rendered" /\ status.page # NULL

\* the current page has rendered the records
HomeRendered == PageRendered /\ status.page.view = "home"

\* the audit page has fetched its batch
AuditFetched == status.audit # NULL /\ status.audit.answered > 0

\* logoutTime earlier than loginTime
Inverted(record) ==
    record.logoutTime # NULL /\ Before(record.logoutTime, record.loginTime)

\* the records without those whose logoutTime is earlier than their loginTime
WithoutInverted(items) == SelectSeq(items, LAMBDA record : ~Inverted(record))

\* the alerts the audit page has for the session id
AlertsFor(id) == SelectSeq(status.audit.alerts, LAMBDA a : a.attendanceId = id)

\* the number of alerts of the type the audit page has for the session id
AlertCount(id, type) == Len(SelectSeq(AlertsFor(id), LAMBDA a : a.type = type))

\* C22 for the current employee page: the row of a session with logoutTime
\* before loginTime shows 'Invalid', and the week total and month average are
\* what they are without it
C22_PageShowsInvalid ==
    HomeRendered =>
        /\ \A i \in DOMAIN status.page.rows :
              Inverted(status.page.rows[i]) => status.page.durations[i] = DurationText("Invalid")
        /\ status.page.cards.weekHours
               = formatHours(calculateTotalHours(
                     WeekRecords(WithoutInverted(records), UserName, now)))
        /\ status.page.cards.averageMonthHours
               = formatHours(calculateAverageHours(
                     MonthRecords(WithoutInverted(records), UserName, now)))

\* C22: for a session with logoutTime before loginTime no negative duration is
\* produced anywhere: the row shows 'Invalid' on the current page and on the
\* earlier one, the totals and averages of the cards of both leave it out, no
\* alert states a negative number of hours, and the audit page keeps no
\* negative duration
C22_NoNegativeDuration ==
    /\ C22_PageShowsInvalid
    /\ PageRendered =>
          /\ \A i \in DOMAIN status.page.rows :
                Inverted(status.page.rows[i])
                    => status.page.durations[i] = DurationText("Invalid")
          /\ status.page.view = "index" =>
                /\ status.page.cards.weekHours
                       = formatHours(StatsCalculateTotalHours(
                             WeekRecords(WithoutInverted(records), UserName, now)))
                /\ status.page.cards.averageMonthHours
                       = StatsAverageHours(MonthRecords(WithoutInverted(records), UserName, now))
    /\ AuditFetched =>
          /\ \A i \in DOMAIN status.audit.alerts :
                status.audit.alerts[i].type = "UNDERTIME"
                    => ~status.audit.alerts[i].message.hours.negative
          /\ \A i \in DOMAIN status.audit.logs : status.audit.logs[i].duration >= 0

-----
(* Clear all data: clearAllData of the earlier page (src/src/pages/index.tsx), *)
(* the operation of the employee's page that deletes rows (the other deletion *)
(* is removeCustomAccounts above), put next to the handlers of the page        *)

\* clearAllData up to its await: the confirmation is given, the delete is sent
ClearAllDataStart(h) ==
    /\ CanStart(h)
    /\ handlers' = [handlers EXCEPT ![h] = [pc |-> "clear_delete", id |-> NoSessionId, at |-> NULL]]
    /\ UNCHANGED <<db, records, currentSessionId, error, isLoading, nextId, complianceWarnings>>
    /\ HandlerFrame
    /\ Rerender(FALSE)

\* the store executes the delete
ClearAllDataDeleteExecuted(h) ==
    /\ handlers[h].pc = "clear_delete"
    /\ \E role \in {"admin", "employee"} : db' = db \ ClearedRows(db, role)
    /\ handlers' = [handlers EXCEPT ![h] = [pc |-> "clear_deleted", id |-> NoSessionId, at |-> NULL]]
    /\ UNCHANGED <<records, currentSessionId, error, isLoading, nextId, complianceWarnings>>
    /\ HandlerFrame
    /\ UNCHANGED rendered

\* ClearAllDataDeleted leaving the current session id as it is
ClearAllDataDeleted_KeepingSession(h) ==
    /\ handlers[h].pc = "clear_deleted"
    /\ records' = <<>>
    /\ error' = "Attendance records have been cleared."
    /\ complianceWarnings' = ComplianceEffect(records')
    /\ handlers' = [handlers EXCEPT ![h] = Idle]
    /\ UNCHANGED <<db, currentSessionId, isLoading, nextId>>
    /\ HandlerFrame
    /\ Rerender(TRUE)

\* the answer of the delete is delivered
ClearAllDataDeleted(h) ==
    /\ handlers[h].pc = "clear_deleted"
    /\ records' = <<>>
    /\ currentSessionId' = NoSessionId
    /\ error' = "Attendance records have been cleared."
    /\ complianceWarnings' = ComplianceEffect(records')
    /\ handlers' = [handlers EXCEPT ![h] = Idle]
    /\ UNCHANGED <<db, isLoading, nextId>>
    /\ HandlerFrame
    /\ Rerender(TRUE)

\* the delete answers with an error, before the store has executed it or
\* after: catch
ClearAllDataFailed(h) ==
    /\ handlers[h].pc \in {"clear_delete", "clear_deleted"}
    /\ error' = "Failed to clear attendance records."
    /\ handlers' = [handlers EXCEPT ![h] = Idle]
    /\ UNCHANGED <<db, records, currentSessionId, isLoading, nextId, complianceWarnings>>
    /\ HandlerFrame
    /\ Rerender(FALSE)

\* setTimeout(() => setError(null), 3000) of clearAllData; the timer is not
\* cancelled and clears whatever message is shown when it fires, three seconds
\* after the clear: it may fire in any state that shows a message
ClearedMessageTimeout ==
    /\ error # NoError
    /\ error' = NoError
    /\ UNCHANGED <<now, db, records, currentSessionId, isLoading, handlers, nextId,
                   complianceWarnings, session, status, phase, loads>>
    /\ Rerender(FALSE)

-----------------------------------------------------------------------------
(* The handlers of the page that defines clearAllData, src/pages/index.tsx: *)
(* handleClockIn always inserts a row and puts the answer in front of the  *)
(* records; handleClockOut compares no times. Its loadRecords is the one   *)
(* above for rows younger than the retention period. The effect that runs  *)
(* it depends on [user], and the AuthContext of this page                  *)
(* (src/contexts/AuthContext.tsx) sets the user at mount, login and logout *)
(* only: loadRecords runs when the page is mounted and not again beside a  *)
(* handler. Its requests are executed by the store as those above.         *)

\* setRecords of handleClockIn: [newRecord, ...prevRecords], sorted by
\* loginTime descending
WithNewRecord(prevRecords, newRecord) ==
    SortByLoginDesc(<<newRecord>> \o prevRecords)

\* handleClockIn up to its await: the guard, then the insert with login_time: new Date()
IndexClockInStart(h) ==
    /\ CanStart(h)
    /\ IF currentSessionId # NoSessionId
       THEN /\ error' = "You are already clocked in!"
            /\ UNCHANGED handlers
       ELSE /\ error' = NoError
            /\ handlers' = [handlers EXCEPT ![h] =
                              [pc |-> "ci_insert", id |-> NoSessionId, at |-> now]]
    /\ UNCHANGED <<db, records, currentSessionId, isLoading, nextId, complianceWarnings>>
    /\ HandlerFrame
    /\ Rerender(FALSE)

\* the answer of the insert is delivered: the fresh row
IndexClockInInserted(h) ==
    /\ handlers[h].pc = "ci_inserted"
    /\ LET data == [id |-> handlers[h].id, email |-> UserEmail,
                    login_time |-> handlers[h].at, logout_time |-> NULL]
       IN  /\ records' = WithNewRecord(records, FormatRecord(data))
           /\ currentSessionId' = data.id
           /\ complianceWarnings' = ComplianceEffect(records')
    /\ handlers' = [handlers EXCEPT ![h] = Idle]
    /\ UNCHANGED <<db, error, isLoading, nextId>>
    /\ HandlerFrame
    /\ Rerender(TRUE)

\* the insert answers with an error, before the store has executed it or
\* after: catch
IndexClockInFailed(h) ==
    /\ handlers[h].pc \in {"ci_insert", "ci_inserted"}
    /\ error' = "Failed to clock in. Please try again."
    /\ handlers' = [handlers EXCEPT ![h] = Idle]
    /\ UNCHANGED <<db, records, currentSessionId, isLoading, nextId, complianceWarnings>>
    /\ HandlerFrame
    /\ Rerender(FALSE)

\* handleClockOut up to its await: the guard, then the update with
\* logout_time: new Date()
IndexClockOutStart(h) ==
    /\ CanStart(h)
    /\ IF currentSessionId = NoSessionId
       THEN /\ error' = "You are not currently clocked in!"
            /\ UNCHANGED handlers
       ELSE /\ error' = NoError
            /\ handlers' = [handlers EXCEPT ![h] =
                              [pc |-> "co_update", id |-> currentSessionId, at |-> now]]
    /\ UNCHANGED <<db, records, currentSessionId, isLoading, nextId, complianceWarnings>>
    /\ HandlerFrame
    /\ Rerender(FALSE)

-----------------------------------------------------------------------------
(* Specification of the session state of src/pages/index.tsx: load,        *)
(* clock-in, clock-out and clear all data, each succeeding or failing at    *)
(* the store, in any interleaving, under a wall clock that may be set back  *)
(* and beside an administrator who removes accounts                         *)

\* exportToCSV of the earlier page looks at displayRecords, every record
IndexExportToCSV == Export(records, "Failed to export attendance records.")

\* the stored table when the page is first opened: the store has given ids
\* before and has two left; the table is empty, or holds one row of today,
\* open since 08:00 or closed at 19:10
SessionTables ==
    {{}}
    \cup {{[id |-> MaxIds - 2, email |-> UserEmail,
            login_time |-> Date(Today, TimeOfDay(8, 0, 0, 0)), logout_time |-> lo]} :
            lo \in {NULL, Date(Today, TimeOfDay(19, 10, 0, 0))}}

\* the page is opened in the evening
InitSession ==
    /\ now = Date(Today, TimeOfDay(19, 10, 0, 0))
    /\ db \in SessionTables
    /\ nextId = MaxIds - 1
    /\ phase = "mounted"
    /\ PageMounted
    /\ NoClassifier

NextSession ==
    \/ \E l \in 1 .. MaxLoads : LoadRecordsQueryExecuted(l)
    \/ \E l \in 1 .. MaxLoads : LoadRecordsFetched(l)
    \/ \E l \in 1 .. MaxLoads : LoadRecords(l)
    \/ \E l \in 1 .. MaxLoads : LoadRecordsError(l)
    \/ Reload
    \/ SetClock
    \/ removeCustomAccounts
    \/ DismissError
    \/ ClearedMessageTimeout
    \/ \E h \in 1 .. MaxHandlers : IndexClockInStart(h)
    \/ \E h \in 1 .. MaxHandlers : ClockInInsertExecuted(h)
    \/ \E h \in 1 .. MaxHandlers : IndexClockInInserted(h)
    \/ \E h \in 1 .. MaxHandlers : IndexClockInFailed(h)
    \/ \E h \in 1 .. MaxHandlers : IndexClockOutStart(h)
    \/ \E h \in 1 .. MaxHandlers : ClockOutUpdateExecuted(h)
    \/ \E h \in 1 .. MaxHandlers : ClockOutUpdated(h)
    \/ \E h \in 1 .. MaxHandlers : ClockOutFailed(h)
    \/ \E h \in 1 .. MaxHandlers : ClearAllDataStart(h)
    \/ \E h \in 1 .. MaxHandlers : ClearAllDataDeleteExecuted(h)
    \/ \E h \in 1 .. MaxHandlers : ClearAllDataDeleted(h)
    \/ \E h \in 1 .. MaxHandlers : ClearAllDataFailed(h)
    \/ \E h \in 1 .. MaxHandlers : OrphanedWriteExecuted(h)
    \/ \E h \in 1 .. MaxHandlers : OrphanedWriteCancelled(h)
    \/ IndexExportToCSV

SpecSession == InitSession /\ [][NextSession]_vars

-----------------------------------------------------------------------------
(* Properties of the session state *)

\* the positions of the records with the id of the current session
CurrentRecords == {i \in DOMAIN records : records[i].id = currentSessionId}

\* a current session is exactly one record, and that record is open
CurrentSessionIsOpen ==
    currentSessionId # NoSessionId =>
        /\ Cardinality(CurrentRecords) = 1
        /\ \A i \in CurrentRecords : records[i].logoutTime = NULL

NowBeforeClockIn ==
    /\ currentSessionId # NoSessionId
    /\ \E i \in DOMAIN records :
          records[i].id = currentSessionId /\ Before(now, records[i].loginTime)

\* C20: a step that stores a logout_time stores one not earlier than the row's
\* login_time; a click on clock-out, on the current page or on the earlier
\* one, while now is earlier than the loginTime of the active session sets
\* the error, issues no update and leaves the store, the records and the
\* current session id as they are
C20_ClockOutNotBeforeClockIn ==
    [][/\ \A r \in db' \ db :
             r.logout_time # NULL => ~Before(r.logout_time, r.login_time)
       /\ (NowBeforeClockIn /\ \E h \in 1 .. MaxHandlers :
                                  ClockOutStart(h) \/ IndexClockOutStart(h)) =>
             /\ error' = "Clock-out time cannot be earlier than clock-in time!"
             /\ handlers' = handlers
             /\ db' = db
             /\ records' = records
             /\ currentSessionId' = currentSessionId]_vars

\* C24: a clock-in while currentSessionId is set is rejected with 'You are already
\* clocked in!', a clock-out while it is not set with 'You are not currently
\* clocked in!'; no request is sent, no row created or updated, and the records
\* and currentSessionId stay as they are
C24_Rejected ==
    [][\A h \in 1 .. MaxHandlers :
          /\ (currentSessionId # NoSessionId /\ ClockInStart(h)) =>
                /\ error' = "You are already clocked in!"
                /\ UNCHANGED <<db, records, currentSessionId, handlers>>
          /\ (currentSessionId = NoSessionId /\ ClockOutStart(h)) =>
                /\ error' = "You are not currently clocked in!"
                /\ UNCHANGED <<db, records, currentSessionId, handlers>>]_vars

C24_Witness ==
    /\ error = "You are already clocked in!"
    /\ currentSessionId # NoSessionId
    /\ \A h \in 1 .. MaxHandlers : handlers[h].pc = "idle"

\* C25: when a request of clock-in or clock-out fails, the records and
\* currentSessionId stay as they are and an error message is set; a handler step
\* (a reload of the page is none) changes the records or currentSessionId only
\* with the answer of a write the store has executed, on a row the store has
\* given its id (the row may be gone again by then, deleted with its account):
\* the record of the row of that answer becomes the current session, open, or
\* the current session ends and the records of that row, if any are left, are
\* closed
C25_FailureLeavesSession ==
    [][\A h \in 1 .. MaxHandlers :
          /\ (ClockInFailed(h) \/ ClockOutFailed(h)) =>
                /\ UNCHANGED <<records, currentSessionId>>
                /\ error' # NoError
          /\ (/\ handlers[h] # handlers'[h]
              /\ ~Reload
              /\ <<records, currentSessionId>> # <<records', currentSessionId'>>) =>
                /\ handlers[h].pc \in {"ci_updated", "ci_inserted", "co_updated"}
                /\ handlers'[h].pc = "idle"
                /\ handlers[h].id \in 1 .. nextId - 1
                /\ IF handlers[h].pc = "co_updated"
                   THEN /\ currentSessionId' = NoSessionId
                        /\ \A i \in DOMAIN records' :
                              records'[i].id = handlers[h].id =>
                                 records'[i].logoutTime = handlers[h].at
                   ELSE /\ currentSessionId' = handlers[h].id
                        /\ \E i \in DOMAIN records' :
                              /\ records'[i].id = handlers[h].id
                              /\ records'[i].loginTime = handlers[h].at
                              /\ records'[i].logoutTime = NULL]_vars

C25_Witness ==
    /\ error = "Failed to clock out. Please try again."
    /\ currentSessionId # NoSessionId
    /\ \E i \in DOMAIN records : records[i].id = currentSessionId /\ records[i].logoutTime = NULL
    /\ \A h \in 1 .. MaxHandlers : handlers[h].pc = "idle"

-----------------------------------------------------------------------------
(* Specification of First-In, Last-Out: load, clock-in and clock-out run   *)
(* one at a time while the clock passes from one day into the next, and    *)
(* the range select and the exports of the page beside them                *)

\* the loginTime of the rows stored before the page is first opened today
SeededLogins == {Date(Today, TimeOfDay(8, 0, 0, 0)), Date(Today, TimeOfDay(8, 30, 0, 0))}

\* the stored table when the page is first opened: no row of today, or two
\* closed rows of today, or one closed row of a week ago, which the range
\* 'last7' holds this morning and no longer this evening
FirstInTables ==
    InitialTables
    \cup {{[id |-> 1, email |-> UserEmail,
            login_time |-> Date(Today - 7, TimeOfDay(9, 30, 0, 0)),
            logout_time |-> Date(Today - 7, TimeOfDay(18, 0, 0, 0))]}}
    \cup {{[id |-> 1, email |-> UserEmail, login_time |-> Date(Today, TimeOfDay(8, 30, 0, 0)),
            logout_time |-> Date(Today, TimeOfDay(8, 40, 0, 0))],
           [id |-> 2, email |-> UserEmail, login_time |-> Date(Today, TimeOfDay(8, 0, 0, 0)),
            logout_time |-> Date(Today, TimeOfDay(8, 10, 0, 0))]}}

InitFirstIn ==
    /\ now = PageClock[1]
    /\ db \in FirstInTables
    /\ nextId = Cardinality(db) + 1
    /\ phase = "mounted"
    /\ PageMounted
    /\ NoClassifier

\* nothing of the page is in flight
HandlersAtRest == \A h \in DOMAIN handlers : handlers[h].pc = "idle"

\* the effect runs loadRecords again while no handler is in flight
LoadRecordsStartAtRest(l) == HandlersAtRest /\ LoadRecordsStart(l)

\* the browser reloads the page while no handler is in flight
ReloadAtRest == HandlersAtRest /\ Reload

\* a click on clock-in while loadRecords is not running
ClockInStartAtRest == loads = NoLoads /\ ClockInStart(1)

\* a click on clock-out while loadRecords is not running
ClockOutStartAtRest == loads = NoLoads /\ ClockOutStart(1)

\* one operation at a time: the next load, reload or click comes when the
\* operation before it has returned
NextFirstIn ==
    \/ \E l \in 1 .. MaxLoads : LoadRecordsStartAtRest(l)
    \/ \E l \in 1 .. MaxLoads : LoadRecordsQueryExecuted(l)
    \/ \E l \in 1 .. MaxLoads : LoadRecordsFetched(l)
    \/ \E l \in 1 .. MaxLoads : LoadRecords(l)
    \/ \E l \in 1 .. MaxLoads : LoadRecordsError(l)
    \/ ReloadAtRest
    \/ Tick
    \/ ClockInStartAtRest
    \/ ClockInSelectExecuted(1)
    \/ ClockInFetched(1)
    \/ ClockInUpdateExecuted(1)
    \/ ClockInUpdated(1)
    \/ ClockInInsertExecuted(1)
    \/ ClockInInserted(1)
    \/ ClockInFailed(1)
    \/ ClockOutStartAtRest
    \/ ClockOutUpdateExecuted(1)
    \/ ClockOutUpdated(1)
    \/ ClockOutFailed(1)
    \/ setRangeFilter
    \/ exportToCSV
    \/ exportToPDF

SpecFirstIn == InitFirstIn /\ [][NextFirstIn]_vars

-----------------------------------------------------------------------------
(* Properties of First-In, Last-Out *)

\* the stored rows of the employee that logged in on calendar day d
RowsOn(d) == {r \in UserRows : r.login_time.day = d}

\* day d started with no row: rows are never deleted, and the rows stored
\* before the page was opened are those of the seeded loginTimes
StartedEmpty(d) == \A r \in RowsOn(d) : r.login_time \notin SeededLogins

\* no two records of the page have the same id
DistinctIds == \A i, j \in DOMAIN records : records[i].id = records[j].id => i = j

\* C26: a clock-in that finds rows of today creates none: it takes the row of the
\* earliest loginTime, keeps the loginTime and clears the logoutTime; a row is
\* created with the time of its clock-in as loginTime, which never changes; a day
\* that started with no row has at most one row, and exactly one from its first
\* clock-in on; the records hold no two records of the same id
C26_FirstInLastOut ==
    [][/\ (ClockInSelectExecuted(1) /\ RowsOfDay(db, UserEmail, handlers[1].at) # {}) =>
             \E first \in RowsOfDay(db, UserEmail, handlers[1].at) :
                /\ first.id = handlers'[1].id
                /\ \A o \in RowsOfDay(db, UserEmail, handlers[1].at) :
                      ~Before(o.login_time, first.login_time)
       /\ (ClockInFetched(1) /\ handlers[1].id # NoSessionId) =>
             /\ handlers'[1].pc = "ci_update"
             /\ handlers'[1].id = handlers[1].id
       /\ ClockInUpdateExecuted(1) =>
             /\ {r.id : r \in db'} = {r.id : r \in db}
             /\ \E r \in db' : /\ r.id = handlers[1].id
                               /\ r.logout_time = NULL
                               /\ \E r0 \in db : r0.id = r.id /\ r0.login_time = r.login_time
       /\ ClockInUpdated(1) =>
             /\ db' = db
             /\ \E r \in db : /\ r.id = handlers[1].id
                              /\ r.logout_time = NULL
                              /\ currentSessionId' = r.id
       /\ ClockInInsertExecuted(1) =>
             \E r \in db' \ db : /\ db' = db \cup {r}
                                 /\ r.login_time = handlers[1].at
                                 /\ RowsOn(r.login_time.day) = {}
       /\ ClockInInserted(1) =>
             /\ db' = db
             /\ \E r \in db : r.id = handlers[1].id /\ currentSessionId' = r.id
       /\ \A r \in db : \E r2 \in db' : r2.id = r.id /\ r2.login_time = r.login_time
       /\ \A i \in DOMAIN PageClock :
             StartedEmpty(PageClock[i].day)' => Cardinality(RowsOn(PageClock[i].day))' <= 1
       /\ DistinctIds']_vars

\* the earlier of the two seeded rows of today is open again
C26_Witness ==
    /\ \E r \in UserRows : /\ r.login_time = Date(Today, TimeOfDay(8, 0, 0, 0))
                           /\ r.logout_time = NULL
                           /\ currentSessionId = r.id
    /\ \E i \in DOMAIN records : records[i].id = currentSessionId /\ records[i].logoutTime = NULL
    /\ handlers[1].pc = "idle"

-----------------------------------------------------------------------------
(* Compliance after the load *)

\* C27: the compliance check that runs on the records of the load finds no
\* unclosed session of a previous day among them, and no warning it sets
\* mentions unclosed sessions, whatever rows the store holds
C27_NoUnclosedAfterLoad ==
    Loaded =>
        /\ UnclosedOldSessions(SelectSeq(records, LAMBDA record : record.email = UserEmail),
                               startOfDay(now)) = <<>>
        /\ \A w \in Warnings : ~Mentions(w, "unclosed session(s)")

\* a row left open yesterday has been loaded and no warning is shown
C27_Witness ==
    /\ Loaded
    /\ complianceWarnings = <<>>
    /\ \E r \in UserRows :
          /\ r.logout_time = NULL
          /\ r.login_time.day = now.day - 1
          /\ \E i \in RecordsOf(r.id) : records[i].logoutTime # NULL

-----------------------------------------------------------------------------
(* Properties of the alerts *)

\* the minute of the day of an instant
MinuteOfDay(t) == t.ms \div MsPerMinute

AlertTypes == {"LATE_ARRIVAL", "EARLY_DEPARTURE", "UNDERTIME"}

\* 1 if the condition holds, 0 otherwise
Count(condition) == IF condition THEN 1 ELSE 0

\* the records of the batch the audit page fetched
Batch == status.audit.batch

\* C28: for every record generateAttendanceAlerts emits at most one alert of each
\* type and no other alert: LATE_ARRIVAL exactly when the login hour:minute is
\* after startHour:00, EARLY_DEPARTURE exactly when there is a logoutTime and its
\* hour is below endHour, UNDERTIME exactly when there is a logoutTime less than
\* nine hours after the loginTime
C28_AlertsPerRecord ==
    AuditFetched =>
        /\ \A k \in DOMAIN status.audit.alerts :
              /\ status.audit.alerts[k].type \in AlertTypes
              /\ \E i \in DOMAIN Batch : status.audit.alerts[k].attendanceId = Batch[i].id
        /\ \A i \in DOMAIN Batch :
              LET login == Batch[i].loginTime
                  logout == Batch[i].logoutTime
                  id == Batch[i].id
              IN  /\ AlertCount(id, "LATE_ARRIVAL")
                        = Count(MinuteOfDay(login) > DEFAULT_START_HOUR * 60)
                  /\ AlertCount(id, "EARLY_DEPARTURE")
                        = Count(logout # NULL /\ logout.ms < DEFAULT_END_HOUR * MsPerHour)
                  /\ AlertCount(id, "UNDERTIME")
                        = Count(/\ logout # NULL
                                /\ (logout.day - login.day) * MsPerDay + logout.ms - login.ms
                                       < 9 * MsPerHour)

\* a record with all three alerts next to an open record with LATE_ARRIVAL alone
C28_Witness ==
    /\ AuditFetched
    /\ \E i \in DOMAIN Batch : \A type \in AlertTypes : AlertCount(Batch[i].id, type) = 1
    /\ \E i \in DOMAIN Batch :
          /\ Batch[i].logoutTime = NULL
          /\ Len(AlertsFor(Batch[i].id)) = 1

\* the tags the page shows for the session id, in any of its rows
TagsFor(id) == {status.page.tags[i] : i \in {j \in DOMAIN status.page.rows :
                                               status.page.rows[j].id = id}}

\* the sessions that are a row of the page and a record of the audit batch
InBothViews ==
    {status.page.rows[i].id : i \in DOMAIN status.page.rows}
        \cap {Batch[i].id : i \in DOMAIN Batch}

\* C29: with start 10:00, end 19:00 and grace 0, getStatus tags a session Late
\* exactly when generateAttendanceAlerts emits LATE_ARRIVAL for it, and Early
\* Leave exactly when it emits EARLY_DEPARTURE for it: of every session the
\* employee's page lists and the audit page has fetched
C29_ViewsAgree ==
    (PageRendered /\ AuditFetched) =>
        \A id \in InBothViews : \A tags \in TagsFor(id) :
            /\ Includes(tags, "Late") <=> AlertCount(id, "LATE_ARRIVAL") > 0
            /\ Includes(tags, "Early Leave") <=> AlertCount(id, "EARLY_DEPARTURE") > 0

\* every session the page holds is in both views; one is Late and Early Leave
\* in both, another is neither in both
C29_Witness ==
    /\ PageRendered
    /\ AuditFetched
    /\ Len(records) = MaxViewRecords
    /\ InBothViews = {records[i].id : i \in DOMAIN records}
    /\ \E id \in InBothViews :
          /\ TagsFor(id) = {<<"Late", "Early Leave">>}
          /\ AlertCount(id, "LATE_ARRIVAL") = 1
          /\ AlertCount(id, "EARLY_DEPARTURE") = 1
    /\ \E id \in InBothViews :
          /\ TagsFor(id) = {<<"Good Entry", "Good Exit">>}
          /\ AlertCount(id, "LATE_ARRIVAL") = 0
          /\ AlertCount(id, "EARLY_DEPARTURE") = 0

\* the records of this month that getStatus tags Late
LateThisMonth ==
    {i \in DOMAIN records :
        /\ records[i].name = UserName
        /\ ~Before(records[i].loginTime, Date(FirstDayOfMonth(now.day), 0))
        /\ Includes(getStatus(records[i].loginTime, records[i].logoutTime), "Late")}

\* C30: the late arrivals of the punctuality card, of SectionCards on the current
\* page and of StatsCards on the earlier one, are the records of the month that
\* getStatus tags Late (a login at 10:05 is one)
C30_LateCountIsLateTags ==
    PageRendered => status.page.cards.lateThisMonth = Cardinality(LateThisMonth)

====
